---- MODULE Spec2Model ----
(***************************************************************************)
(* A model of font-finder: the preview queue of the styles screen          *)
(* (useFacePreviewQueue, src/src/search-fonts.tsx), the preview resolver   *)
(* (getFontPreview, src/src/lib/font-preview.ts) and the font index store  *)
(* (loadFontIndex, src/src/lib/strings.ts).                                *)
(***************************************************************************)
EXTENDS Integers, Sequences, FiniteSets, Bags, TLC

(***************************************************************************)
(* Bounds of the model.                                                    *)
(***************************************************************************)
\* Number of distinct face ids the styles screen can be given.
MaxFaces == 4
\* Pending setTimeout(pumpQueue, 0) callbacks that have not fired yet.
MaxTimers == 1
\* Faces 1..MaxLeaving may be missing from the face list handed to the hook.
MaxLeaving == 1
\* Faces 1..MaxUnavailable may resolve to null (no preview available).
MaxUnavailable == 1
\* Length of the face id lists handed to enqueuePreviews.
MaxBatch == 2
\* Number of distinct getFontPreview keys.
MaxKeys == 4
\* Keys 1..MaxVectorKeys belong to fonts the vector generator can draw.
MaxVectorKeys == 2
\* Promises created per key.
MaxComputations == 2
\* Families of the command: the family of the styles screen and the others.
MaxFamilies == 2
\* The run tokens of the command's effects stop at MaxRunToken.
MaxRunToken == 2
MaxWarmupToken == 6
\* Run tokens of the selected preview effect on its own.
MaxSelectedRunToken == 6
\* Length of the faces array of a persisted index.
MaxIndexFaces == 2
\* The version numbers a persisted index can carry: 0..MaxVersion.
MaxVersion == 3
\* Number of font files the walker discovers.
MaxFontFiles == 2
\* Number of logical fonts of a container.
MaxFonts == 2
\* Number of calls of buildFontIndex.
MaxBuilds == 2
\* Length of a file path or a font name, in characters.
MaxName == 2
\* Number of paths of the tree walkFiles is given.
MaxNodes == 4
\* Number of faces handed to groupIntoFamilies.
MaxGroupFaces == 3
\* Milliseconds around the instants builtAt, builtAt + time-to-live.
MaxSkew == 4
\* calls of getFontPreview in one behaviour
MaxPreviewCalls == 2
\* calls of rebuildIndex() made from actions in one behaviour
MaxUserRebuilds == 3
\* code points in the character set of a font, and code points it draws
MaxCodePoints == 3
\* characters of a file path
MaxPathLen == 2
\* the modification times, in milliseconds
MaxMtime == 11

(***************************************************************************)
(* Program constants.                                                      *)
(***************************************************************************)
\* useFacePreviewQueue(family.faces, { concurrency: 2 })
concurrency == 2

FaceIds == 1..MaxFaces
\* The empty string: the one face id for which !faceId is true.
EmptyId == 0
\* previewByFaceId[faceId] === undefined
Undefined == "undefined"
\* What getFontPreview resolves to: an artifact path, or null (unavailable).
PreviewResults == {"path", "null"}
\* What it can resolve to for one face.
ResultsOf(faceId) ==
    IF faceId <= MaxUnavailable THEN PreviewResults ELSE {"path"}
PreviewPriority == {"high", "normal"}

(***************************************************************************)
(* State of useFacePreviewQueue.                                           *)
(***************************************************************************)
VARIABLES
    faces,               \* the face ids of the committed render (faceById)
    queueRef,            \* pending face ids, head is admitted next
    queuedSetRef,
    runningSetRef,
    activeCountRef,
    disposedRef,
    previewByFaceId,     \* React state, queued updates applied
    previewByFaceIdRef,  \* the copy the callbacks read, set by an effect
    tasks,               \* bag of the queue's getFontPreview calls in flight
    timers,              \* closures of pending setTimeout(pumpQueue, 0)
    \* history of the queue, read by the properties only
    pendingPriority,     \* priority a pending face was inserted with
    \* state of getFontPreview (font-preview.ts)
    previewPromiseCache, \* key -> the promise cached for it
    computations,        \* the async bodies that have not finished
    startedCount,        \* key -> number of promises created for it
    vectorPreviews,      \* the .svg files of the vector-previews dir
    rasterPreviews,      \* the .png files of the previews dir
    \* history of getFontPreview, read by the properties only
    returned,            \* what the latest call returned
    settledResult,       \* key -> the result of its latest settled promise
    generations,         \* key -> number of generator runs for it
    \* state of the command (SearchFontsCommand)
    detailFamilyId,
    commandPreviewByFaceId,
    selectedPreviewRunTokenRef,
    selectedCleanup,     \* run token held by the cleanup of the selected effect
    selectedCalls,       \* getFontPreview calls of the selected preview effect
    previewLoadingFaceId,
    droppedCalls,        \* calls whose result was dropped as stale (history)
    warmupRunTokenRef,
    warmupCleanup,       \* run token held by the cleanup of the warmup effect
    warmupTimer,         \* run token of the pending warmup timer
    warmupLoops,         \* warmup loops awaiting a getFontPreview call
    \* state of the index store (loadFontIndex)
    indexFile,           \* what is at getFontIndexPath()
    loadResult,          \* what the latest loadFontIndex resolved to
    loadedFile,          \* what the latest loadFontIndex read (history)
    \* state of buildFontIndex
    fontFiles,           \* path -> what the file system holds at that path
    builds,              \* build -> how far the call of buildFontIndex is
    \* the arguments and results of the functions checked on their own
    idInput,             \* two fonts: file path, PostScript name, style name
    idResult,            \* their ids
    staleInput,          \* builtAt of an index and the reading of Date.now()
    staleResult,         \* what isIndexStale returned
    sampleInput,         \* the font and the family name given to pickSampleText
    sampleResult,        \* what pickSampleText returned
    keyInput,            \* two requests to getPreviewImage
    keyResult,           \* their cache paths, and whether the second hits
    svgInput,            \* a font file under two names, selector, family name
    svgResult,           \* what buildVectorPreviewSvg returned for each name
    \* state of the command at startup (loadIndex, rebuildIndex)
    startupPc,           \* where loadIndex is
    isLoading,
    families,            \* which faces the displayed families come from
    rebuild,             \* the call of rebuildIndex that loadIndex made
    error,               \* useState<string | null>(null)
    retryOffered,        \* the failure toast with its Retry action is up
    userRebuilds,        \* the calls of rebuildIndex() made from actions
    lastRebuild,         \* the last thing a call of rebuildIndex did
    \* the argument and the result of groupIntoFamilies
    groupInput,
    groupResult,
    \* state of walkFiles
    tree,                \* node -> what the file system holds there
    roots,
    walk,                \* queue, results and the directories read so far
    \* state of one preview request (getFontPreview)
    fontFile,            \* the extension of options.filePath
    preview,             \* where the request is and what it has done
    \* state of the warmup effect with its inputs (SearchFontsCommand)
    mounted,             \* the command is on screen
    visibleFamilies,     \* the family ids of the committed render
    warmupSearchText,
    warmupEntries,       \* run token -> the sorted entries of that run
    \* history of the warmup effect, read by the properties only
    warmupCalls,         \* run token -> the entries it has called for
    superseded           \* the run tokens whose cleanup has run

queueVars == <<faces, queueRef, queuedSetRef, runningSetRef,
               activeCountRef, disposedRef, previewByFaceId,
               previewByFaceIdRef, tasks, timers, pendingPriority>>

resolverVars == <<previewPromiseCache, computations, startedCount,
                  vectorPreviews, rasterPreviews, returned, settledResult,
                  generations>>

commandVars == <<detailFamilyId, commandPreviewByFaceId,
                 selectedPreviewRunTokenRef, selectedCleanup, selectedCalls,
                 previewLoadingFaceId, droppedCalls,
                 warmupRunTokenRef, warmupCleanup, warmupTimer, warmupLoops>>

indexVars == <<indexFile, loadResult, loadedFile>>

buildVars == <<fontFiles, builds>>

previewFunctionVars == <<sampleInput, sampleResult, keyInput, keyResult,
                         svgInput, svgResult>>

functionVars == <<idInput, idResult, staleInput, staleResult,
                  previewFunctionVars>>

startupVars == <<startupPc, isLoading, families, rebuild, error, retryOffered,
                 userRebuilds, lastRebuild>>

\* The groups of the parts modelled on their own.
groupVars == <<groupInput, groupResult>>

walkVars == <<tree, roots, walk>>

generatorVars == <<fontFile, preview>>

warmupVars == <<mounted, visibleFamilies, warmupSearchText, warmupEntries,
                warmupCalls, superseded>>

laterVars == <<startupVars, groupVars, walkVars, generatorVars, warmupVars>>

coreVars == <<queueVars, resolverVars, commandVars, indexVars, buildVars,
              functionVars>>

vars == <<queueVars, resolverVars, commandVars, indexVars, buildVars,
          functionVars, laterVars>>

\* What the hook of the styles screen does not touch.
notQueueVars == <<resolverVars, commandVars, indexVars, buildVars,
    functionVars, laterVars>>

\* What getFontPreview does not touch.
notResolverVars == <<queueVars, commandVars, indexVars, buildVars,
    functionVars, laterVars>>

\* What the effects of the command do not touch.
notCommandVars == <<queueVars, resolverVars, indexVars, buildVars,
    functionVars, laterVars>>

\* What loadFontIndex does not touch.
notIndexVars == <<queueVars, resolverVars, commandVars, buildVars,
    functionVars, laterVars>>

\* What the scan of buildFontIndex does not touch.
notBuildVars == <<queueVars, resolverVars, commandVars, indexVars,
    functionVars, laterVars>>

(***************************************************************************)
(* Helpers on sequences.                                                   *)
(***************************************************************************)
Range(s) == {s[i] : i \in 1..Len(s)}

Reverse(s) == [i \in 1..Len(s) |-> s[Len(s) + 1 - i]]

\* Array.prototype.filter: the elements in S, order kept.
RECURSIVE FilterSeq(_, _)
FilterSeq(s, S) ==
    IF s = <<>> THEN <<>>
    ELSE IF Head(s) \in S THEN <<Head(s)>> \o FilterSeq(Tail(s), S)
    ELSE FilterSeq(Tail(s), S)

\* Position of x in s, 0 when absent.
IndexOf(s, x) ==
    IF x \in Range(s) THEN CHOOSE i \in 1..Len(s) : s[i] = x ELSE 0

\* Sequences without repetition over S, up to length n.
RECURSIVE SeqsUpTo(_, _)
SeqsUpTo(S, n) ==
    IF n = 0 THEN {<<>>}
    ELSE LET shorter == SeqsUpTo(S, n - 1)
         IN shorter \cup {Append(s, x) : s \in shorter, x \in S}

(***************************************************************************)
(* pumpQueue                                                               *)
(***************************************************************************)
\* The loop condition without its concurrency test.
CanAdmitNoLimit(active, queue) == Len(queue) > 0

\* The loop condition that admits one request more than the limit.
CanAdmitOneMore(active, queue) == active <= concurrency /\ Len(queue) > 0

\* while (activeCountRef.current < concurrency && queueRef.current.length > 0)
CanAdmit(active, queue) == active < concurrency /\ Len(queue) > 0

\* One run of pumpQueue under the closure whose faceById holds `closure`:
\* the refs afterwards and the faces whose generation it started, in order.
RECURSIVE PumpQueue(_, _, _, _, _, _, _)
PumpQueue(queue, queued, running, active, started, closure, previewRef) ==
    IF ~CanAdmit(active, queue)
    THEN [queue |-> queue, queued |-> queued, running |-> running,
          active |-> active, started |-> started]
    ELSE LET faceId == Head(queue)
             rest == Tail(queue)
         IN IF faceId = EmptyId
            THEN [queue |-> rest, queued |-> queued, running |-> running,
                  active |-> active, started |-> started]
            ELSE IF \/ previewRef[faceId] # Undefined
                    \/ faceId \in running
                    \/ faceId \notin closure
            THEN PumpQueue(rest, queued \ {faceId}, running, active, started,
                           closure, previewRef)
            ELSE PumpQueue(rest, queued \ {faceId}, running \cup {faceId},
                           active + 1, Append(started, faceId), closure,
                           previewRef)

\* The getFontPreview calls a pump makes: each keeps the closure it was made in.
NewTasks(started, closure) ==
    SetToBag({[face |-> f, closure |-> closure] : f \in Range(started)})

\* The refs after pumpQueue ran under `closure` on the given queue; `prio` is
\* the history of the pending faces before the pump.
ApplyPump(queue, queued, closure, prio) ==
    LET r == PumpQueue(queue, queued, runningSetRef, activeCountRef, <<>>,
                       closure, previewByFaceIdRef)
    IN /\ queueRef' = r.queue
       /\ queuedSetRef' = r.queued
       /\ runningSetRef' = r.running
       /\ activeCountRef' = r.active
       /\ tasks' = tasks (+) NewTasks(r.started, closure)
       /\ pendingPriority' =
            [f \in FaceIds |-> IF f \in Range(r.queue) THEN prio[f] ELSE "none"]

(***************************************************************************)
(* enqueuePreview, enqueuePreviews                                         *)
(***************************************************************************)
\* The early returns of enqueuePreview (the `continue`s of enqueuePreviews).
IsSkipped(faceId, queued) ==
    \/ faceId = EmptyId
    \/ faceId \notin faces
    \/ previewByFaceIdRef[faceId] # Undefined
    \/ faceId \in queued
    \/ faceId \in runningSetRef

\* The insertion that pushes whatever the priority.
InsertInQueueAlwaysPush(queue, faceId, priority) == Append(queue, faceId)

\* if (priority === "high") unshift(faceId) else push(faceId)
InsertInQueue(queue, faceId, priority) ==
    IF priority = "high" THEN <<faceId>> \o queue ELSE Append(queue, faceId)

\* The body of the loop of enqueuePreviews for one face id, on the refs and
\* the history in `st`.
InsertOne(st, faceId, priority) ==
    IF IsSkipped(faceId, st.queued) THEN st
    ELSE [queue |-> InsertInQueue(st.queue, faceId, priority),
          queued |-> st.queued \cup {faceId},
          prio |-> [st.prio EXCEPT ![faceId] = priority]]

RECURSIVE InsertAll(_, _, _)
InsertAll(st, ids, priority) ==
    IF ids = <<>> THEN st
    ELSE InsertAll(InsertOne(st, Head(ids), priority), Tail(ids), priority)

\* The ids taken in the given order whatever the priority.
OrderedIdsNoReverse(faceIds, priority) == faceIds

\* const orderedIds = priority === "high" ? [...faceIds].reverse() : faceIds
OrderedIds(faceIds, priority) ==
    IF priority = "high" THEN Reverse(faceIds) ELSE faceIds

QueueState ==
    [queue |-> queueRef, queued |-> queuedSetRef, prio |-> pendingPriority]

EnqueuePreview(faceId, priority) ==
    /\ UNCHANGED notQueueVars
    /\ IF IsSkipped(faceId, queuedSetRef)
       THEN UNCHANGED vars
       ELSE LET st == InsertOne(QueueState, faceId, priority)
            IN /\ ApplyPump(st.queue, st.queued, faces, st.prio)
               /\ UNCHANGED <<faces, disposedRef, previewByFaceId,
                              previewByFaceIdRef, timers>>

EnqueuePreviews(faceIds, priority) ==
    /\ UNCHANGED notQueueVars
    /\ LET st == InsertAll(QueueState, OrderedIds(faceIds, priority), priority)
       IN /\ ApplyPump(st.queue, st.queued, faces, st.prio)
          /\ UNCHANGED <<faces, disposedRef, previewByFaceId,
                         previewByFaceIdRef, timers>>

(***************************************************************************)
(* Completion of a generation: the then and finally handlers, the timer.   *)
(***************************************************************************)
\* The update that puts the latest result in place of the recorded one.
RecordLatest(prev, faceId, previewPath) == [prev EXCEPT ![faceId] = previewPath]

\* setPreviewByFaceId(prev => prev[faceId] !== undefined ? prev : {...})
RecordPreview(prev, faceId, previewPath) ==
    IF prev[faceId] # Undefined THEN prev
    ELSE [prev EXCEPT ![faceId] = previewPath]

\* Math.max(0, activeCountRef.current - 1)
Decrement(active) == IF active - 1 > 0 THEN active - 1 ELSE 0

\* The outstanding getFontPreview call `task` resolves to previewPath: its
\* then handler and its finally handler run, one microtask after the other.
GenerationSettles(task, previewPath) ==
    /\ UNCHANGED notQueueVars
    /\ BagIn(task, tasks)
    /\ previewPath \in ResultsOf(task.face)
    /\ disposedRef \/ Len(timers) < MaxTimers
    /\ previewByFaceId' =
          IF disposedRef THEN previewByFaceId
          ELSE RecordPreview(previewByFaceId, task.face, previewPath)
    /\ tasks' = tasks (-) SetToBag({task})
    /\ runningSetRef' = runningSetRef \ {task.face}
    /\ activeCountRef' = Decrement(activeCountRef)
    /\ timers' = IF disposedRef THEN timers ELSE Append(timers, task.closure)
    /\ UNCHANGED <<faces, queueRef, queuedSetRef, disposedRef,
                   previewByFaceIdRef, pendingPriority>>

\* setTimeout(() => { if (!disposedRef.current) pumpQueue(); }, 0) fires.
TimerFires ==
    /\ UNCHANGED notQueueVars
    /\ timers # <<>>
    /\ timers' = Tail(timers)
    /\ IF disposedRef
       THEN UNCHANGED <<queueRef, queuedSetRef, runningSetRef, activeCountRef,
                        tasks, pendingPriority>>
       ELSE ApplyPump(queueRef, queuedSetRef, Head(timers), pendingPriority)
    /\ UNCHANGED <<faces, disposedRef, previewByFaceId,
                   previewByFaceIdRef>>

(***************************************************************************)
(* Renders: the effects of the hook.                                       *)
(***************************************************************************)
\* useEffect(() => { previewByFaceIdRef.current = previewByFaceId },
\*           [previewByFaceId]) after the render of a state update.
SyncPreviewRef ==
    /\ UNCHANGED notQueueVars
    /\ ~disposedRef
    /\ previewByFaceIdRef # previewByFaceId
    /\ previewByFaceIdRef' = previewByFaceId
    /\ UNCHANGED <<faces, queueRef, queuedSetRef, runningSetRef,
                   activeCountRef, disposedRef, previewByFaceId, tasks, timers,
                   pendingPriority>>

\* Set filtered by allowed.has
Prune(set, allowed) == set \cap allowed

\* A render with a new face list: faceById and the callbacks are rebuilt and
\* the effects run (the ref copy, then the pruning of the queue's refs).
FacesChange(allowed) ==
    /\ UNCHANGED notQueueVars
    /\ ~disposedRef
    /\ allowed # faces
    /\ faces' = allowed
    /\ previewByFaceIdRef' = previewByFaceId
    /\ queueRef' = FilterSeq(queueRef, allowed)
    /\ queuedSetRef' = Prune(queuedSetRef, allowed)
    /\ runningSetRef' = Prune(runningSetRef, allowed)
    /\ pendingPriority' =
          [f \in FaceIds |-> IF f \in allowed THEN pendingPriority[f] ELSE "none"]
    /\ UNCHANGED <<activeCountRef, disposedRef, previewByFaceId, tasks, timers>>

\* The cleanup of the mount effect: disposedRef.current = true.
Dispose ==
    /\ UNCHANGED notQueueVars
    /\ ~disposedRef
    /\ disposedRef' = TRUE
    /\ UNCHANGED <<faces, queueRef, queuedSetRef, runningSetRef,
                   activeCountRef, previewByFaceId, previewByFaceIdRef, tasks,
                   timers, pendingPriority>>

(***************************************************************************)
(* getFontPreview: the promise cache, the vector and the raster generator. *)
(***************************************************************************)
\* The cache keys: sha1 of (file path, mtime, PostScript name, family name,
\* size), one per face and size.
Keys == 1..MaxKeys

\* previewPromiseCache.get(key) === undefined
NoPromise == 0

\* buildVectorPreviewSvg returns an svg for the fonts with drawable glyphs:
\* those of the keys 1..MaxVectorKeys.
HasOutlines(key) == key <= MaxVectorKeys

\* getVectorPreviewPath(sha1 of path, mtime, PostScript name, family name):
\* the size is no part of it.  The drawable keys are one face at several
\* sizes, each of the other keys is a face of its own.
VectorPathOf(key) == IF HasOutlines(key) THEN 1 ELSE key

\* getPreviewCachePath(filePath, fileMtimeMs, size): the face is no part of
\* it.  The keys that are not drawable are the faces of one collection file
\* at one size.
RasterPathOf(key) == IF HasOutlines(key) THEN key ELSE MaxVectorKeys + 1

\* The lookup that finds no file.
FileExistsNever(dir, previewPath) == FALSE

\* await fileExists(previewPath)
FileExists(dir, previewPath) == previewPath \in dir

\* The lookup that never finds a promise.
ExistingNever(cache, key) == NoPromise

\* const existing = previewPromiseCache.get(key)
Existing(cache, key) == cache[key]

\* The finally handler that leaves the entry in place.
ClearEntryKeep(cache, key) == cache

\* previewPromiseCache.delete(key)
ClearEntry(cache, key) == [cache EXCEPT ![key] = NoPromise]

\* The async body of a promise moves on to its next await, or to its result.
Moved(c, pc, value) == [key |-> c.key, n |-> c.n, pc |-> pc, value |-> value]

\* getFontPreview(options) with the options that hash to `key`.
GetFontPreview(key) ==
    /\ LET existing == Existing(previewPromiseCache, key)
       IN IF existing # NoPromise
          THEN /\ returned' = [key |-> key, n |-> existing, shared |-> TRUE]
               /\ UNCHANGED <<previewPromiseCache, computations, startedCount>>
          ELSE /\ startedCount[key] < MaxComputations
               /\ LET n == startedCount[key] + 1
                  IN /\ computations' = computations \cup
                          {[key |-> key, n |-> n, pc |-> "vectorLookup",
                            value |-> Undefined]}
                     /\ previewPromiseCache' =
                          [previewPromiseCache EXCEPT ![key] = n]
                     /\ startedCount' = [startedCount EXCEPT ![key] = n]
                     /\ returned' = [key |-> key, n |-> n, shared |-> FALSE]
    /\ UNCHANGED <<vectorPreviews, rasterPreviews, settledResult, generations>>
    /\ UNCHANGED notResolverVars

\* getVectorPreviewSvg after its fileExists: the cached svg, or a run of the
\* vector generator.
VectorLookup(c) ==
    /\ c \in computations
    /\ c.pc = "vectorLookup"
    /\ IF FileExists(vectorPreviews, VectorPathOf(c.key))
       THEN /\ computations' =
                 (computations \ {c}) \cup {Moved(c, "settled", "vector")}
            /\ UNCHANGED generations
       ELSE /\ generations' = [generations EXCEPT ![c.key] = @ + 1]
            /\ computations' = (computations \ {c}) \cup
                 {IF HasOutlines(c.key)
                  THEN Moved(c, "vectorWrite", Undefined)
                  ELSE Moved(c, "rasterLookup", Undefined)}
    /\ UNCHANGED <<previewPromiseCache, startedCount, vectorPreviews,
                   rasterPreviews, returned, settledResult>>
    /\ UNCHANGED notResolverVars

\* await fs.writeFile(previewPath, svg); return previewPath
VectorWrite(c) ==
    /\ c \in computations
    /\ c.pc = "vectorWrite"
    /\ vectorPreviews' = vectorPreviews \cup {VectorPathOf(c.key)}
    /\ computations' = (computations \ {c}) \cup {Moved(c, "settled", "vector")}
    /\ UNCHANGED <<previewPromiseCache, startedCount, rasterPreviews, returned,
                   settledResult, generations>>
    /\ UNCHANGED notResolverVars

\* getPreviewImage after its fileExists: the cached png, or a run of the
\* Quick Look thumbnailer.
RasterLookup(c) ==
    /\ c \in computations
    /\ c.pc = "rasterLookup"
    /\ IF FileExists(rasterPreviews, RasterPathOf(c.key))
       THEN /\ computations' =
                 (computations \ {c}) \cup {Moved(c, "settled", "raster")}
            /\ UNCHANGED generations
       ELSE /\ generations' = [generations EXCEPT ![c.key] = @ + 1]
            /\ computations' =
                 (computations \ {c}) \cup {Moved(c, "thumbnail", Undefined)}
    /\ UNCHANGED <<previewPromiseCache, startedCount, vectorPreviews,
                   rasterPreviews, returned, settledResult>>
    /\ UNCHANGED notResolverVars

\* generateQuickLookThumbnail resolves: the png is copied to the cache, or
\* there is no thumbnail (or the tool failed) and the result is null.
ThumbnailDone(c, generated) ==
    /\ c \in computations
    /\ c.pc = "thumbnail"
    /\ IF generated
       THEN /\ rasterPreviews' = rasterPreviews \cup {RasterPathOf(c.key)}
            /\ computations' =
                 (computations \ {c}) \cup {Moved(c, "settled", "raster")}
       ELSE /\ UNCHANGED rasterPreviews
            /\ computations' =
                 (computations \ {c}) \cup {Moved(c, "settled", "null")}
    /\ UNCHANGED <<previewPromiseCache, startedCount, vectorPreviews, returned,
                   settledResult, generations>>
    /\ UNCHANGED notResolverVars

\* .catch(() => null).finally(() => { previewPromiseCache.delete(key) }): the
\* promise handed to the callers settles.
PromiseSettles(c) ==
    /\ c \in computations
    /\ c.pc = "settled"
    /\ previewPromiseCache' = ClearEntry(previewPromiseCache, c.key)
    /\ computations' = computations \ {c}
    /\ settledResult' = [settledResult EXCEPT ![c.key] = c.value]
    /\ UNCHANGED <<startedCount, vectorPreviews, rasterPreviews, returned,
                   generations>>
    /\ UNCHANGED notResolverVars

ResolverInit ==
    /\ previewPromiseCache = [k \in Keys |-> NoPromise]
    /\ computations = {}
    /\ startedCount = [k \in Keys |-> 0]
    /\ vectorPreviews = {}
    /\ rasterPreviews = {}
    /\ returned = [key |-> 0, n |-> NoPromise, shared |-> FALSE]
    /\ settledResult = [k \in Keys |-> Undefined]
    /\ generations = [k \in Keys |-> 0]

ResolverNext ==
    \/ \E k \in Keys : GetFontPreview(k)
    \/ \E c \in computations : VectorLookup(c)
    \/ \E c \in computations : VectorWrite(c)
    \/ \E c \in computations : RasterLookup(c)
    \/ \E c \in computations, generated \in BOOLEAN : ThumbnailDone(c, generated)
    \/ \E c \in computations : PromiseSettles(c)

(***************************************************************************)
(* SearchFontsCommand: the selected preview effect and the warmup effect,  *)
(* which call getFontPreview without the queue.                            *)
(***************************************************************************)
Families == 1..MaxFamilies

\* detailFamilyId === null
NoFamily == 0

\* previewLoadingFaceId === null
NoFace == 0

\* The family whose styles screen is pushed: its faces are FaceIds.
StylesFamily == 1

\* pickRepresentativeFace(family.faces).id of the family of the styles screen.
RepresentativeFace == 1

\* The cache key of the representative face of a family: the faces of the
\* other families are not faces of the styles screen.
RepresentativeKey(family) ==
    IF family = StylesFamily THEN RepresentativeFace
    ELSE MaxFaces + family - StylesFamily

\* The run token after the cleanup of an effect run that holds `held`.
AfterCleanup(token, held) ==
    IF held # 0 /\ token = held THEN token + 1 ELSE token

\* The test that takes every run token for the current one.
IsCurrentAlways(token, runToken) == TRUE

\* selectedPreviewRunTokenRef.current !== runToken, negated
IsCurrent(token, runToken) == token = runToken

\* setPreviewLoadingFaceId((current) => current === faceId ? null : current)
ClearLoading(current, faceId) == IF current = faceId THEN NoFace ELSE current

\* The selected preview effect runs again with `family` as detailFamilyId:
\* the cleanup of its last run, then its body.
SelectedPreviewEffect(family) ==
    /\ selectedPreviewRunTokenRef + 2 <= MaxSelectedRunToken
    /\ detailFamilyId' = family
    /\ LET token == AfterCleanup(selectedPreviewRunTokenRef, selectedCleanup)
       IN IF family = NoFamily
          THEN /\ selectedPreviewRunTokenRef' = token
               /\ selectedCleanup' = 0
               /\ previewLoadingFaceId' = NoFace
               /\ UNCHANGED selectedCalls
          ELSE IF commandPreviewByFaceId[family] # Undefined
          THEN /\ selectedPreviewRunTokenRef' = token
               /\ selectedCleanup' = 0
               /\ previewLoadingFaceId' =
                    ClearLoading(previewLoadingFaceId, family)
               /\ UNCHANGED selectedCalls
          ELSE /\ selectedPreviewRunTokenRef' = token + 1
               /\ selectedCleanup' = token + 1
               /\ previewLoadingFaceId' = family
               /\ selectedCalls' = selectedCalls \cup
                    {[family |-> family, runToken |-> token + 1]}
    /\ UNCHANGED <<commandPreviewByFaceId, droppedCalls, warmupRunTokenRef,
                   warmupCleanup, warmupTimer, warmupLoops>>
    /\ UNCHANGED notCommandVars

\* The detail timer sets detailFamilyId.
DetailFamilyShown(family) ==
    /\ family # detailFamilyId
    /\ SelectedPreviewEffect(family)

\* The index is loaded or rebuilt: familiesById is a new map with the same
\* families.
FamiliesChange == SelectedPreviewEffect(detailFamilyId)

\* A getFontPreview call of the selected preview effect resolves: its then
\* and finally handlers, and the effect run that the state update causes.
SelectedCallSettles(call, previewPath) ==
    /\ call \in selectedCalls
    /\ selectedCalls' = selectedCalls \ {call}
    /\ IF IsCurrent(selectedPreviewRunTokenRef, call.runToken)
       THEN /\ commandPreviewByFaceId' =
                 RecordPreview(commandPreviewByFaceId, call.family, previewPath)
            /\ previewLoadingFaceId' =
                 ClearLoading(previewLoadingFaceId, call.family)
            /\ selectedPreviewRunTokenRef' =
                 AfterCleanup(selectedPreviewRunTokenRef, selectedCleanup)
            /\ selectedCleanup' = 0
            /\ UNCHANGED droppedCalls
       ELSE /\ droppedCalls' = droppedCalls \cup {call}
            /\ UNCHANGED <<commandPreviewByFaceId, previewLoadingFaceId,
                           selectedPreviewRunTokenRef, selectedCleanup>>
    /\ UNCHANGED <<detailFamilyId, warmupRunTokenRef, warmupCleanup,
                   warmupTimer, warmupLoops>>
    /\ UNCHANGED notCommandVars

\* The warmup effect runs (mount, new search text, new families): the cleanup
\* of its last run, then the timer of the new run.
WarmupEffectRuns ==
    /\ warmupRunTokenRef + 2 <= MaxRunToken
    /\ LET token == AfterCleanup(warmupRunTokenRef, warmupCleanup)
       IN /\ warmupRunTokenRef' = token + 1
          /\ warmupCleanup' = token + 1
          /\ warmupTimer' = token + 1
    /\ UNCHANGED <<detailFamilyId, commandPreviewByFaceId,
                   previewLoadingFaceId, droppedCalls,
                   selectedPreviewRunTokenRef, selectedCleanup, selectedCalls,
                   warmupLoops>>
    /\ UNCHANGED notCommandVars

\* The warmup timer fires: the loop starts and awaits its first call.
WarmupTimerFires ==
    /\ warmupTimer # 0
    /\ warmupTimer' = 0
    /\ warmupLoops' =
         IF warmupRunTokenRef # warmupTimer THEN warmupLoops
         ELSE warmupLoops \cup {[runToken |-> warmupTimer, pos |-> 1]}
    /\ UNCHANGED <<detailFamilyId, commandPreviewByFaceId,
                   previewLoadingFaceId, droppedCalls,
                   selectedPreviewRunTokenRef, selectedCleanup, selectedCalls,
                   warmupRunTokenRef, warmupCleanup>>
    /\ UNCHANGED notCommandVars

\* The call a warmup loop awaits resolves: the loop ends when its run token
\* is stale or the list is done, and awaits its next call otherwise.
WarmupCallSettles(loop) ==
    /\ loop \in warmupLoops
    /\ warmupLoops' =
         IF warmupRunTokenRef # loop.runToken \/ loop.pos = MaxFamilies
         THEN warmupLoops \ {loop}
         ELSE (warmupLoops \ {loop}) \cup
                {[runToken |-> loop.runToken, pos |-> loop.pos + 1]}
    /\ UNCHANGED <<detailFamilyId, commandPreviewByFaceId,
                   previewLoadingFaceId, droppedCalls,
                   selectedPreviewRunTokenRef, selectedCleanup, selectedCalls,
                   warmupRunTokenRef, warmupCleanup, warmupTimer>>
    /\ UNCHANGED notCommandVars

CommandInit ==
    /\ detailFamilyId = NoFamily
    /\ commandPreviewByFaceId = [f \in Families |-> Undefined]
    /\ selectedPreviewRunTokenRef = 0
    /\ selectedCleanup = 0
    /\ selectedCalls = {}
    /\ previewLoadingFaceId = NoFace
    /\ droppedCalls = {}
    /\ warmupRunTokenRef = 0
    /\ warmupCleanup = 0
    /\ warmupTimer = 0
    /\ warmupLoops = {}

\* const faceIds = family.faces.map((face) => face.id)
FamilyFaceIds == [i \in 1..MaxFaces |-> i]

\* const remaining = faceIds.filter((faceId) => faceId !== selectedFaceId)
Remaining(selectedFaceId) ==
    FilterSeq(FamilyFaceIds, FaceIds \ {selectedFaceId})

\* The effects of the styles screen once its first face is selected:
\* enqueuePreview(selectedFaceId, "high")
SelectedFaceEffect == EnqueuePreview(Head(FamilyFaceIds), "high")

\* enqueuePreviews(remaining, "normal")
RemainingFacesEffect ==
    EnqueuePreviews(Remaining(Head(FamilyFaceIds)), "normal")

\* The styles screen with its queue, on top of the command.
SystemNext ==
    \/ SelectedFaceEffect
    \/ RemainingFacesEffect
    \/ \E t \in BagToSet(tasks), r \in PreviewResults : GenerationSettles(t, r)
    \/ TimerFires
    \/ SyncPreviewRef
    \/ \E family \in Families \cup {NoFamily} :
          /\ selectedPreviewRunTokenRef + 2 <= MaxRunToken
          /\ DetailFamilyShown(family)
    \/ \E call \in selectedCalls, r \in PreviewResults :
          SelectedCallSettles(call, r)
    \/ WarmupEffectRuns
    \/ WarmupTimerFires
    \/ \E loop \in warmupLoops : WarmupCallSettles(loop)

\* The command and the styles screen when the face list of the screen and
\* the families of the command change as well (an index rebuild).
RecordNext ==
    \/ SystemNext
    \/ \E allowed \in {FaceIds \ gone : gone \in SUBSET (1..MaxLeaving)} :
          FacesChange(allowed)
    \/ /\ selectedPreviewRunTokenRef + 2 <= MaxRunToken
       /\ FamiliesChange

\* The selected preview effect on its own.
CommandNext ==
    \/ \E family \in Families \cup {NoFamily} : DetailFamilyShown(family)
    \/ FamiliesChange
    \/ \E call \in selectedCalls, r \in PreviewResults :
          SelectedCallSettles(call, r)

(***************************************************************************)
(* loadFontIndex: the persisted index file and what a load makes of it.    *)
(***************************************************************************)
\* export const FONT_INDEX_VERSION = 2
FONT_INDEX_VERSION == 2

\* new Date(0).toISOString()
Epoch == "1970-01-01T00:00:00.000Z"

\* The field of a face record that has the wrong type (or is missing), "none"
\* for a well-formed record; "notObject" is a record that is null or no object.
FaceDefects ==
    {"none", "notObject", "id", "familyName", "styleName", "displayName",
     "filePath", "fileExt", "source", "fileMtimeMs"}

\* The elements a persisted faces array can hold.
FaceRecords == [defect : FaceDefects]

\* The values of the version field: a number, a string or nothing.
VersionValues ==
    [type : {"number"}, value : 0..MaxVersion] \cup
    {[type |-> "string", value |-> FONT_INDEX_VERSION],
     [type |-> "undefined", value |-> 0]}

\* The values of the faces field: an array of records, or something else.
FacesValues ==
    [isArray : {TRUE}, items : UNION {[1..n -> FaceRecords] : n \in 0..MaxIndexFaces}]
    \cup {[isArray |-> FALSE, items |-> <<>>]}

\* The values of the builtAt field: a string, or something else.
BuiltAtValues ==
    {[isString |-> TRUE, text |-> "2026-01-01T00:00:00.000Z"],
     [isString |-> FALSE, text |-> ""]}

\* What can be at the index path: nothing, a file that cannot be read, text
\* that is no JSON, the JSON text null, or a JSON object.
IndexFiles ==
    {f \in [kind : {"missing", "unreadable", "invalidJson", "null", "object"},
            version : VersionValues, faces : FacesValues,
            builtAt : BuiltAtValues] :
        f.kind = "missing" =>
            /\ f.version.type = "undefined"
            /\ ~f.faces.isArray
            /\ ~f.builtAt.isString}

\* No file at the index path.
MissingFile ==
    [kind |-> "missing", version |-> [type |-> "undefined", value |-> 0],
     faces |-> [isArray |-> FALSE, items |-> <<>>],
     builtAt |-> [isString |-> FALSE, text |-> ""]]

\* return null
NullIndex ==
    [tag |-> "null", version |-> 0, builtAt |-> "", faces |-> <<>>]

\* No load has resolved yet.
NotLoaded ==
    [tag |-> "notLoaded", version |-> 0, builtAt |-> "", faces |-> <<>>]

\* The version test that lets older files through.
VersionAtMost(version) ==
    version.type = "number" /\ version.value <= FONT_INDEX_VERSION

\* parsed.version !== FONT_INDEX_VERSION, negated
VersionMatches(version) ==
    version.type = "number" /\ version.value = FONT_INDEX_VERSION

\* The chain of filters cut down to its first link.
IsFontFaceObjectOnly(f) == f.defect # "notObject"

\* The chain of filters on parsed.faces.
IsFontFace(f) ==
    /\ f.defect # "notObject"
    /\ f.defect # "id"
    /\ f.defect # "familyName" /\ f.defect # "styleName"
    /\ f.defect # "displayName"
    /\ f.defect # "filePath"
    /\ f.defect # "fileExt"
    /\ f.defect # "source"
    /\ f.defect # "fileMtimeMs"

\* What loadFontIndex resolves to for the file `file`.
LoadFontIndexOf(file) ==
    IF file.kind \in {"missing", "unreadable"} THEN NullIndex
    ELSE IF file.kind = "invalidJson" THEN NullIndex
    ELSE IF file.kind = "null" \/ ~VersionMatches(file.version) THEN NullIndex
    ELSE IF ~file.faces.isArray THEN NullIndex
    ELSE [tag |-> "index",
          version |-> FONT_INDEX_VERSION,
          builtAt |-> IF file.builtAt.isString THEN file.builtAt.text ELSE Epoch,
          faces |-> SelectSeq(file.faces.items, IsFontFace)]

\* await loadFontIndex()
LoadFontIndex ==
    /\ loadResult' = LoadFontIndexOf(indexFile)
    /\ loadedFile' = indexFile
    /\ UNCHANGED indexFile
    /\ UNCHANGED notIndexVars

\* No index file, no load.
IndexIdle ==
    /\ indexFile = MissingFile
    /\ loadResult = NotLoaded
    /\ loadedFile = MissingFile

IndexNext == LoadFontIndex

(***************************************************************************)
(* buildFontIndex: the scan of the discovered files and the persist step.  *)
(***************************************************************************)
\* Texts are sequences of characters; the separator of the id is one of them.
Separator == "|"

\* The postscriptName of a font that has none (undefined).
Absent == <<"undefined">>

\* postscriptName ?? ""
OrEmpty(postscriptName) ==
    IF postscriptName = Absent THEN <<>> ELSE postscriptName

\* sha1(text) of lib/hash.ts: a digest, distinct texts have distinct digests.
Sha1(text) == [sha1 |-> text]

\* sha1(`${filePath}|${postscriptName ?? ""}|${styleName}`)
FaceIdOf(filePath, postscriptName, styleName) ==
    Sha1(filePath \o <<Separator>> \o OrEmpty(postscriptName)
                  \o <<Separator>> \o styleName)

\* The paths walkFiles discovers: "a", "aa", ...
FontPaths == {[i \in 1..n |-> "a"] : n \in 1..MaxFontFiles}

\* A logical font whose tables cannot be read: a getter of it throws.
Broken == [postscriptName |-> Absent, styleName |-> <<>>, throws |-> TRUE]

\* The logical fonts of a container.
Fonts ==
    [postscriptName : {Absent, <<"a">>}, styleName : {<<"a">>},
     throws : {FALSE}] \cup {Broken}

\* What is at a discovered path: a file fs.stat fails on, a file openSync
\* throws on, or a container with its logical fonts (none for an empty
\* collection).
FileContents ==
    {[kind |-> "statThrows", fonts |-> <<>>],
     [kind |-> "openThrows", fonts |-> <<>>]} \cup
    [kind : {"fonts"}, fonts : UNION {[1..n -> Fonts] : n \in 0..MaxFonts}]

\* The orders in which walkFiles can return the discovered paths.
Walks ==
    {w \in [1..Cardinality(FontPaths) -> FontPaths] :
        \A i, j \in 1..Cardinality(FontPaths) : w[i] = w[j] => i = j}

\* facesById, parsedFaces and skippedFiles before the loop; visited is the
\* history of the loop.
EmptyScan ==
    [faces |-> <<>>, parsedFaces |-> 0, skippedFiles |-> 0, visited |-> <<>>]

\* The dedupe test that finds every id new.
FacesByIdHasNever(faceSeq, id) == FALSE

\* The dedupe test that takes every id for recorded once a face is.
FacesByIdHasAny(faceSeq, id) == faceSeq # <<>>

\* facesById.has(id)
FacesByIdHas(faceSeq, id) == \E i \in 1..Len(faceSeq) : faceSeq[i].id = id

\* The loop over the fonts of one file from its n-th font on; threw tells
\* that a font threw.  member is history: which font of the file a face is.
RECURSIVE ScanFonts(_, _, _, _)
ScanFonts(filePath, fonts, n, scan) ==
    IF n > Len(fonts) THEN [scan |-> scan, threw |-> FALSE]
    ELSE IF fonts[n].throws THEN [scan |-> scan, threw |-> TRUE]
    ELSE
        LET id == FaceIdOf(filePath, fonts[n].postscriptName,
                           fonts[n].styleName)
            face == [id |-> id, filePath |-> filePath,
                     postscriptName |-> fonts[n].postscriptName,
                     styleName |-> fonts[n].styleName,
                     member |-> n,
                     defect |-> "none"]
        IN  IF FacesByIdHas(scan.faces, id)
            THEN ScanFonts(filePath, fonts, n + 1, scan)
            ELSE ScanFonts(filePath, fonts, n + 1,
                           [scan EXCEPT !.faces = Append(@, face),
                                        !.parsedFaces = @ + 1])

\* skippedFiles += 1
Skipped(scan) == [scan EXCEPT !.skippedFiles = @ + 1]

\* The body of the loop for one file.
ScanFile(fs, filePath, scan) ==
    LET visiting == [scan EXCEPT !.visited = Append(@, filePath)]
        parsed == ScanFonts(filePath, fs[filePath].fonts, 1, visiting)
    IN  IF fs[filePath].kind = "statThrows" THEN Skipped(visiting)
        ELSE IF fs[filePath].kind = "openThrows" THEN Skipped(visiting)
        ELSE IF parsed.threw THEN Skipped(parsed.scan)
        ELSE parsed.scan

\* A failure that ends the loop.
RestAfterAbort(files) == <<>>

\* continue
RestAfterFailure(files) == Tail(files)

\* for (let i = 0; i < files.length; i += 1)
RECURSIVE ScanFiles(_, _, _)
ScanFiles(fs, files, scan) ==
    IF files = <<>> THEN scan
    ELSE
        LET after == ScanFile(fs, Head(files), scan)
        IN  IF after.skippedFiles > scan.skippedFiles
            THEN ScanFiles(fs, RestAfterFailure(files), after)
            ELSE ScanFiles(fs, Tail(files), after)

\* new Date().toISOString() as the builds read it.
BuildClock ==
    <<"2026-02-01T00:00:00.000Z", "2026-02-02T00:00:00.000Z",
      "2026-02-03T00:00:00.000Z">>

\* A call of buildFontIndex that has not started.
IdleBuild ==
    [pc |-> "idle", files |-> <<>>, faces |-> <<>>, builtAt |-> "",
     stats |-> [scannedFiles |-> 0, parsedFaces |-> 0, skippedFiles |-> 0],
     visited |-> <<>>]

\* JSON.stringify(index, null, 2) of the index of build b.
IndexText(build) ==
    [kind |-> "object",
     version |-> [type |-> "number", value |-> FONT_INDEX_VERSION],
     faces |-> [isArray |-> TRUE, items |-> build.faces],
     builtAt |-> [isString |-> TRUE, text |-> build.builtAt]]

\* The index path while fs.writeFile is at work on it: the file is truncated
\* when it is opened and holds a prefix of the text until the last chunk.
PartialFile ==
    [kind |-> "invalidJson", version |-> [type |-> "undefined", value |-> 0],
     faces |-> [isArray |-> FALSE, items |-> <<>>],
     builtAt |-> [isString |-> FALSE, text |-> ""]]

\* The index an earlier run persisted.
PreviousFile ==
    [kind |-> "object",
     version |-> [type |-> "number", value |-> FONT_INDEX_VERSION],
     faces |-> [isArray |-> TRUE, items |-> <<>>],
     builtAt |-> [isString |-> TRUE, text |-> "2026-01-01T00:00:00.000Z"]]

Builds == 1..MaxBuilds

\* buildFontIndex up to the call of saveFontIndex: the files are walked and
\* scanned; the loop touches nothing but its own variables.
BuildScans(b, files) ==
    /\ builds[b].pc = "idle"
    /\ LET scan == ScanFiles(fontFiles, files, EmptyScan)
       IN  builds' = [builds EXCEPT ![b] =
                [pc |-> "save", files |-> files, faces |-> scan.faces,
                 builtAt |-> BuildClock[b],
                 stats |-> [scannedFiles |-> Len(files),
                            parsedFaces |-> scan.parsedFaces,
                            skippedFiles |-> scan.skippedFiles],
                 visited |-> scan.visited]]
    /\ UNCHANGED fontFiles
    /\ UNCHANGED notBuildVars

\* saveFontIndex: fs.writeFile opens the index path, which truncates it.
SaveOpens(b) ==
    /\ builds[b].pc = "save"
    /\ builds' = [builds EXCEPT ![b].pc = "write"]
    /\ indexFile' = PartialFile
    /\ UNCHANGED <<fontFiles, loadResult, loadedFile>>
    /\ UNCHANGED <<queueVars, resolverVars, commandVars, functionVars, laterVars>>

\* saveFontIndex: fs.writeFile has written the text; buildFontIndex returns.
SaveWrites(b) ==
    /\ builds[b].pc = "write"
    /\ builds' = [builds EXCEPT ![b].pc = "done"]
    /\ indexFile' = IndexText(builds[b])
    /\ UNCHANGED <<fontFiles, loadResult, loadedFile>>
    /\ UNCHANGED <<queueVars, resolverVars, commandVars, functionVars, laterVars>>

\* No build has been asked for.
BuildIdle ==
    /\ fontFiles = [p \in FontPaths |-> [kind |-> "statThrows", fonts |-> <<>>]]
    /\ builds = [b \in Builds |-> IdleBuild]

BuildNext ==
    \/ \E b \in Builds : \E files \in Walks : BuildScans(b, files)
    \/ \E b \in Builds : SaveOpens(b)
    \/ \E b \in Builds : SaveWrites(b)
    \/ LoadFontIndex

(***************************************************************************)
(* The id of a face and isIndexStale, as functions of their arguments.     *)
(***************************************************************************)
\* The characters of file paths and font names: a letter and the separator.
Chars == {"a", Separator}

\* The texts of 1..MaxName characters: normalizeName never returns "".
Names == UNION {[1..n -> Chars] : n \in 1..MaxName}

\* filePath, postscriptName (or none) and styleName of a logical font.
Triples ==
    [filePath : Names, postscriptName : Names \cup {Absent}, styleName : Names]

\* const id = sha1(...) for two fonts.
ComputeIds ==
    /\ idResult = <<>>
    /\ idResult' =
         <<FaceIdOf(idInput[1].filePath, idInput[1].postscriptName,
                    idInput[1].styleName),
           FaceIdOf(idInput[2].filePath, idInput[2].postscriptName,
                    idInput[2].styleName)>>
    /\ UNCHANGED <<idInput, staleInput, staleResult, previewFunctionVars>>
    /\ UNCHANGED <<queueVars, resolverVars, commandVars, indexVars, buildVars,
                   laterVars>>

\* export const FONT_INDEX_TTL_MS = 1000 * 60 * 60 * 24 * 7
FONT_INDEX_TTL_MS == 604800000

\* Number.isFinite(Date.parse(text)) is false
NaN == -1

\* Date.parse(index.builtAt): the milliseconds of the instant the text
\* denotes, NaN for a text that is no date.
DateParse(builtAt) == IF builtAt.isDate THEN builtAt.ms ELSE NaN

\* The comparison that takes the age for too old at the time-to-live.
ReachesTtl(age, ttl) == age >= ttl

\* Date.now() - builtAtMs > FONT_INDEX_TTL_MS
ExceedsTtl(age, ttl) == age > ttl

\* The staleness test that finds every index fresh.
IsIndexStaleNever(builtAt, now) == FALSE

\* isIndexStale(index) when Date.now() reads `now`.
IsIndexStale(builtAt, now) ==
    IF DateParse(builtAt) = NaN THEN TRUE
    ELSE ExceedsTtl(now - DateParse(builtAt), FONT_INDEX_TTL_MS)

\* The builtAt texts: no date, or the ISO text of an instant.
BuiltAtTexts ==
    {[isDate |-> FALSE, ms |-> 0]} \cup [isDate : {TRUE}, ms : 0..MaxSkew]

\* The readings of Date.now(): from before builtAt to past the time-to-live.
Nows ==
    (0..MaxSkew) \cup
    ((FONT_INDEX_TTL_MS - MaxSkew)..(FONT_INDEX_TTL_MS + 2 * MaxSkew))

\* loadIndex asks isIndexStale(cached).
CheckStale ==
    /\ staleResult = "none"
    /\ staleResult' =
         IF IsIndexStale(staleInput.builtAt, staleInput.now)
         THEN "stale" ELSE "fresh"
    /\ UNCHANGED <<idInput, idResult, staleInput, previewFunctionVars>>
    /\ UNCHANGED <<queueVars, resolverVars, commandVars, indexVars, buildVars,
                   laterVars>>

\* pickSampleText has not returned.
Unpicked == [done |-> FALSE, text |-> <<>>]

\* No sample text has been asked for.
SampleIdle ==
    /\ sampleInput = [font |-> [characterSet |-> {}, glyphs |-> {}],
                      familyName |-> "Arial"]
    /\ sampleResult = Unpicked

\* No cache path has been asked for.
KeysIdle == keyInput = <<>> /\ keyResult = <<>>

\* buildVectorPreviewSvg has not been called.
SvgIdle == svgInput = <<>> /\ svgResult = <<>>

PreviewFunctionsIdle == SampleIdle /\ KeysIdle /\ SvgIdle

\* No id and no staleness has been asked for.
FunctionsIdle ==
    /\ idInput = <<>>
    /\ idResult = <<>>
    /\ staleInput = [builtAt |-> [isDate |-> FALSE, ms |-> 0], now |-> 0]
    /\ staleResult = "none"
    /\ PreviewFunctionsIdle

(***************************************************************************)
(* pickSampleText and pickFallbackSample (font-preview.ts).  A text is the *)
(* sequence of its code points.                                            *)
(***************************************************************************)
\* const SAMPLE_TEXT_CANDIDATES: Aa, the Cyrillic, Greek, Hebrew, Arabic,
\* Devanagari, Thai, kana, Hangul pairs, then the simplified and the
\* traditional Han pair.
SAMPLE_TEXT_CANDIDATES ==
    << <<65, 97>>, <<1071, 1103>>, <<913, 945>>, <<1488, 1489>>,
       <<1607, 1608>>, <<2309, 2310>>, <<3585, 3586>>, <<12354, 12450>>,
       <<12450, 12452>>, <<54620, 44544>>, <<27721, 23383>>,
       <<28450, 23383>> >>

\* "汉字" and "漢字"
Simplified == <<27721, 23383>>

Traditional == <<28450, 23383>>

\* The code points a font of the model can list or draw: tab, space, "!",
\* "1", "A", "a", the three Han characters, and a private-use code point.
CodePoints == {9, 32, 33, 49, 65, 97, 23383, 27721, 28450, 57344}

\* font.characterSet, and the code points for which glyphForCodePoint
\* returns a glyph with id > 0 (for the others it returns glyph 0 or
\* throws).
SampleFonts ==
    [characterSet : {c \in SUBSET CodePoints : Cardinality(c) <= MaxCodePoints},
     glyphs : {g \in SUBSET CodePoints : Cardinality(g) <= MaxCodePoints}]

\* The family names.
SampleNames == {"Arial", "PingFang SC", " PingFang HK ", "PingFangs"}

\* (familyName ?? "").trim()
Trim(name) == IF name = " PingFang HK " THEN "PingFang HK" ELSE name

\* /^PingFang\b/.test(name)
IsPingFang(name) == name \in {"PingFang SC", "PingFang HK"}

\* /\b(HK|MO|TC)\b/.test(name)
IsTraditionalRegion(name) == name = "PingFang HK"

\* getCharacterSet: null when the font lists no code point.
GetCharacterSet(font) ==
    [isNull |-> font.characterSet = {}, has |-> font.characterSet]

\* The test that does not look at the character set.
HasGlyphUnlisted(font, codePoint, characterSet) == codePoint \in font.glyphs

\* hasGlyphForCodePoint
HasGlyphForCodePoint(font, codePoint, characterSet) ==
    IF ~characterSet.isNull /\ codePoint \notin characterSet.has
    THEN FALSE
    ELSE codePoint \in font.glyphs

\* canRenderText
CanRenderText(font, text, characterSet) ==
    /\ Len(text) > 0
    /\ \A i \in 1..Len(text) :
          HasGlyphForCodePoint(font, text[i], characterSet)

\* Array.from(characterSet).sort((a, b) => a - b)
RECURSIVE Ascending(_)
Ascending(set) ==
    IF set = {} THEN <<>>
    ELSE LET least == CHOOSE x \in set : \A y \in set : x <= y
         IN <<least>> \o Ascending(set \ {least})

\* /^\s$/u.test(char), for the code points of the model
IsWhitespace(codePoint) == codePoint \in {9, 32}

\* /[\p{L}\p{N}]/u.test(char), for the code points of the model
IsLetterOrNumber(codePoint) ==
    codePoint \in {49, 65, 97, 23383, 27721, 28450}

\* The code points that the loop of pickFallbackSample passes over.
IsPassedOver(codePoint) ==
    \/ codePoint < 32
    \/ codePoint > 1114111
    \/ codePoint >= 57344 /\ codePoint <= 63743
    \/ IsWhitespace(codePoint)
    \/ ~IsLetterOrNumber(codePoint)

\* picked.push(char); if (picked.length >= 2) break
FirstTwo(list) == IF Len(list) > 2 THEN SubSeq(list, 1, 2) ELSE list

\* pickFallbackSample: the text, or <<>> for null.
PickFallbackSample(characterSet) ==
    IF characterSet.isNull THEN <<>>
    ELSE FirstTwo(SelectSeq(Ascending(characterSet.has),
                            LAMBDA codePoint : ~IsPassedOver(codePoint)))

\* The first text of the list that canRenderText accepts, or <<>>.
RECURSIVE FirstRenderable(_, _, _)
FirstRenderable(font, list, characterSet) ==
    IF list = <<>> THEN <<>>
    ELSE IF CanRenderText(font, Head(list), characterSet) THEN Head(list)
    ELSE FirstRenderable(font, Tail(list), characterSet)

\* The texts pickSampleText tries before the fallback, in its order.
TriedTexts(familyName) ==
    LET name == Trim(familyName)
        preferred == IF IsTraditionalRegion(name) THEN Traditional
                     ELSE Simplified
        secondary == IF preferred = Traditional THEN Simplified
                     ELSE Traditional
    IN (IF IsPingFang(name) THEN <<preferred, secondary>> ELSE <<>>)
           \o SAMPLE_TEXT_CANDIDATES

\* pickSampleText
PickSampleText(font, familyName) ==
    LET characterSet == GetCharacterSet(font)
        sample == FirstRenderable(font, TriedTexts(familyName), characterSet)
        fallback == PickFallbackSample(characterSet)
    IN IF sample # <<>> THEN sample
       ELSE IF fallback # <<>> THEN fallback
       ELSE <<65, 97>>

\* const sampleText = pickSampleText(font, options.familyName)
PickSample ==
    /\ ~sampleResult.done
    /\ sampleResult' =
         [done |-> TRUE,
          text |-> PickSampleText(sampleInput.font, sampleInput.familyName)]
    /\ UNCHANGED <<sampleInput, keyInput, keyResult, svgInput, svgResult>>
    /\ UNCHANGED <<idInput, idResult, staleInput, staleResult>>
    /\ UNCHANGED <<queueVars, resolverVars, commandVars, indexVars, buildVars,
                   laterVars>>

(***************************************************************************)
(* getPreviewCachePath and the lookup of getPreviewImage.                  *)
(***************************************************************************)
\* The characters of a file path: a letter, the colon and a digit.
PathChars == {"a", ":", "1"}

\* The file paths: texts of 1..MaxPathLen characters.
FilePaths == UNION {[1..n -> PathChars] : n \in 1..MaxPathLen}

\* The sizes asked for.
Sizes == {1, 11}

\* `${n}` of a non-negative integer
RECURSIVE NumberText(_)
NumberText(n) ==
    LET digit == <<"0", "1", "2", "3", "4", "5", "6", "7", "8", "9">>[(n % 10) + 1]
    IN IF n < 10 THEN <<digit>> ELSE NumberText(n \div 10) \o <<digit>>

\* The key text without the mtime.
KeyTextOfPathAndSize(filePath, fileMtimeMs, size) ==
    filePath \o <<":">> \o NumberText(size)

\* `${filePath}:${fileMtimeMs}:${size}`
KeyText(filePath, fileMtimeMs, size) ==
    filePath \o <<":">> \o NumberText(fileMtimeMs) \o <<":">>
             \o NumberText(size)

\* getPreviewCachePath: path.join(getPreviewCacheDir(), `${key}@${size}.png`)
GetPreviewCachePath(filePath, fileMtimeMs, size) ==
    [key |-> Sha1(KeyText(filePath, fileMtimeMs, size)), size |-> size]

\* The requests to getPreviewImage.
Requests == [filePath : FilePaths, fileMtimeMs : 0..MaxMtime, size : Sizes]

\* getPreviewImage for the second request after the artifact of the first
\* one was cached: the two cache paths, and fileExists(cached) of the second.
ComputeCachePaths ==
    /\ keyResult = <<>>
    /\ LET first == GetPreviewCachePath(keyInput[1].filePath,
                                        keyInput[1].fileMtimeMs,
                                        keyInput[1].size)
           second == GetPreviewCachePath(keyInput[2].filePath,
                                         keyInput[2].fileMtimeMs,
                                         keyInput[2].size)
       IN keyResult' = [first |-> first, second |-> second,
                        hit |-> FileExists({first}, second)]
    /\ UNCHANGED <<keyInput, sampleInput, sampleResult, svgInput, svgResult>>
    /\ UNCHANGED <<idInput, idResult, staleInput, staleResult>>
    /\ UNCHANGED <<queueVars, resolverVars, commandVars, indexVars, buildVars,
                   laterVars>>

(***************************************************************************)
(* Startup of the command: loadIndex and the rebuildIndex it calls.        *)
(***************************************************************************)
\* No call of rebuildIndex.
NoRebuild == [pc |-> "none", silent |-> FALSE]

\* error is null.
NoError == "null"

\* e.message, or "Unknown error occurred"
Message == "message"

\* What a call of rebuildIndex did last: whether it started, failed or
\* succeeded, whether it was silent, and whether the Retry action made it.
NothingYet == [did |-> "nothing", silent |-> FALSE, retry |-> FALSE]

Did(did, silent, retry) == [did |-> did, silent |-> silent, retry |-> retry]

\* error after buildFontIndex settled in a call of rebuildIndex: the catch
\* sets it in a foreground call, nothing else writes it.
ErrorAfter(current, built, silent) ==
    IF ~built /\ ~silent THEN Message ELSE current

\* isLoading after buildFontIndex settled: finally { if (!silent)
\* setIsLoading(false) }
LoadingAfter(current, silent) == IF silent THEN current ELSE FALSE

\* The toast after buildFontIndex settled: the failure toast of a
\* foreground call carries Retry, every other toast takes its place.
RetryAfter(current, built, silent) ==
    IF built THEN FALSE ELSE IF silent THEN current ELSE TRUE

\* The mount effect calls loadIndex: setIsLoading(true), setError(null),
\* then the await of loadFontIndex.
LoadIndexStarts ==
    /\ startupPc = "mounted"
    /\ startupPc' = "loading"
    /\ isLoading' = TRUE
    /\ error' = NoError
    /\ UNCHANGED <<families, rebuild, retryOffered, userRebuilds, lastRebuild>>
    /\ UNCHANGED <<groupVars, walkVars, generatorVars,
                   warmupVars>>
    /\ UNCHANGED coreVars

\* loadFontIndex has resolved: the cached families are shown and a stale
\* index is refreshed silently, or rebuildIndex() runs in the foreground up
\* to its await of buildFontIndex.  staleInput is builtAt of the file as
\* Date.parse reads it, and the reading of Date.now().
LoadIndexResumes ==
    /\ startupPc = "loading"
    /\ LET cached == LoadFontIndexOf(indexFile)
       IN IF cached.tag = "index" /\ Len(cached.faces) > 0
          THEN /\ families' = "cached"
               /\ isLoading' = FALSE
               /\ rebuild' =
                    IF IsIndexStale(staleInput.builtAt, staleInput.now)
                    THEN [pc |-> "building", silent |-> TRUE]
                    ELSE NoRebuild
               /\ lastRebuild' =
                    IF IsIndexStale(staleInput.builtAt, staleInput.now)
                    THEN Did("started", TRUE, FALSE)
                    ELSE lastRebuild
               /\ startupPc' = "returned"
               /\ UNCHANGED <<error, retryOffered>>
          ELSE /\ isLoading' = TRUE
               /\ error' = NoError
               /\ retryOffered' = FALSE
               /\ rebuild' = [pc |-> "building", silent |-> FALSE]
               /\ lastRebuild' = Did("started", FALSE, FALSE)
               /\ startupPc' = "awaitsRebuild"
               /\ UNCHANGED families
    /\ UNCHANGED userRebuilds
    /\ UNCHANGED <<coreVars, groupVars, walkVars, generatorVars,
                   warmupVars>>

\* buildFontIndex settles in rebuildIndex: the new families on success, the
\* toast, setError in the catch and setIsLoading(false) in the finally of a
\* foreground call.
RebuildSettles(built) ==
    /\ rebuild.pc = "building"
    /\ rebuild' = [rebuild EXCEPT !.pc = IF built THEN "done" ELSE "failed"]
    /\ families' = IF built THEN "built" ELSE families
    /\ isLoading' = LoadingAfter(isLoading, rebuild.silent)
    /\ error' = ErrorAfter(error, built, rebuild.silent)
    /\ retryOffered' = RetryAfter(retryOffered, built, rebuild.silent)
    /\ lastRebuild' = Did(IF built THEN "succeeded" ELSE "failed",
                          rebuild.silent, FALSE)
    /\ startupPc' = IF rebuild.silent THEN startupPc ELSE "returned"
    /\ UNCHANGED userRebuilds
    /\ UNCHANGED <<coreVars, groupVars, walkVars, generatorVars,
                   warmupVars>>

\* An action of the list is within reach: the items of the families, or one
\* of the empty views, which are drawn when isLoading is false.
ActionsShown == families # "none" \/ ~isLoading

\* rebuildIndex() from an action (retry: from the Retry of the failure
\* toast): setIsLoading(true), setError(null), the toast, then the await of
\* buildFontIndex.
UserRebuildStarts(retry) ==
    /\ startupPc \notin {"mounted", "loading"}
    /\ IF retry THEN retryOffered ELSE ActionsShown
    /\ Len(userRebuilds) < MaxUserRebuilds
    /\ userRebuilds' = Append(userRebuilds,
                              [pc |-> "building", retry |-> retry])
    /\ isLoading' = TRUE
    /\ error' = NoError
    /\ retryOffered' = FALSE
    /\ lastRebuild' = Did("started", FALSE, retry)
    /\ UNCHANGED <<startupPc, families, rebuild>>
    /\ UNCHANGED <<coreVars, groupVars, walkVars, generatorVars,
                   warmupVars>>

\* buildFontIndex settles in a call of rebuildIndex() made from an action.
UserRebuildSettles(i, built) ==
    /\ i \in 1..Len(userRebuilds)
    /\ userRebuilds[i].pc = "building"
    /\ userRebuilds' = [userRebuilds EXCEPT
                           ![i].pc = IF built THEN "done" ELSE "failed"]
    /\ families' = IF built THEN "built" ELSE families
    /\ isLoading' = LoadingAfter(isLoading, FALSE)
    /\ error' = ErrorAfter(error, built, FALSE)
    /\ retryOffered' = RetryAfter(retryOffered, built, FALSE)
    /\ lastRebuild' = Did(IF built THEN "succeeded" ELSE "failed", FALSE,
                          userRebuilds[i].retry)
    /\ UNCHANGED <<startupPc, rebuild>>
    /\ UNCHANGED <<coreVars, groupVars, walkVars, generatorVars,
                   warmupVars>>

\* The command before its mount effect; useState(true), useState([]),
\* useState(null).
StartupIdle ==
    /\ startupPc = "mounted"
    /\ isLoading = TRUE
    /\ families = "none"
    /\ rebuild = NoRebuild
    /\ error = NoError
    /\ retryOffered = FALSE
    /\ userRebuilds = <<>>
    /\ lastRebuild = NothingYet

\* The index files of a startup: none, one without faces, one with a face.
StartupFiles ==
    {MissingFile, PreviousFile,
     [PreviousFile EXCEPT !.faces.items = <<[defect |-> "none"]>>]}

StartupNext ==
    \/ LoadIndexStarts
    \/ LoadIndexResumes
    \/ \E built \in BOOLEAN : RebuildSettles(built)

\* The command with the rebuilds its user asks for.
RebuildNext ==
    \/ StartupNext
    \/ \E retry \in BOOLEAN : UserRebuildStarts(retry)
    \/ \E i \in 1..MaxUserRebuilds, built \in BOOLEAN :
          UserRebuildSettles(i, built)

(***************************************************************************)
(* groupIntoFamilies and pickRepresentativeFace.                           *)
(***************************************************************************)
\* The family names and the style names of the faces; a persisted index can
\* hold names that normalizeName would have changed.
FamilyNames == {"arial", "Arial", "Helvetica"}

StyleNames == {" regular", "Black", "Bold", "Light", "Regular"}

\* Where String.prototype.localeCompare puts a name: blanks before letters,
\* then by letter, lower case before upper case.
LocaleRank(name) ==
    CASE name = " regular" -> 0
      [] name = "arial" -> 1
      [] name = "Arial" -> 2
      [] name = "Black" -> 3
      [] name = "Bold" -> 4
      [] name = "Helvetica" -> 5
      [] name = "Light" -> 6
      [] name = "Regular" -> 7

\* The style name as it is.
Unfolded(styleName) == styleName

\* styleName.trim().toLowerCase()
TrimLowerCase(styleName) ==
    CASE styleName = " regular" -> "regular"
      [] styleName = "Black" -> "black"
      [] styleName = "Bold" -> "bold"
      [] styleName = "Light" -> "light"
      [] styleName = "Regular" -> "regular"

\* The array as it is.
Unsorted(list, rank) == list

\* [...list].sort(compare), a stable sort: rank[i] is where the comparison
\* puts list[i].
Sorted(list, rank) ==
    LET place(i) ==
            Cardinality({j \in 1..Len(list) :
                \/ rank[j] < rank[i]
                \/ rank[j] = rank[i] /\ j < i}) + 1
    IN  [k \in 1..Len(list) |-> list[CHOOSE i \in 1..Len(list) : place(i) = k]]

\* pickRepresentativeFace(faces)
PickRepresentativeFace(faceList) ==
    IF \E i \in 1..Len(faceList) :
          TrimLowerCase(faceList[i].styleName) = "regular"
    THEN faceList[CHOOSE i \in 1..Len(faceList) :
            /\ TrimLowerCase(faceList[i].styleName) = "regular"
            /\ \A j \in 1..(i - 1) :
                  TrimLowerCase(faceList[j].styleName) # "regular"]
    ELSE faceList[1]

\* The key that takes names apart by their letters only.
FamilyKeyOfLetters(face) ==
    IF face.familyName = "arial" THEN "Arial" ELSE face.familyName

\* const key = face.familyName
FamilyKey(face) == face.familyName

\* byFamily.entries(): the keys in the order of their first face, each with
\* its faces in the order of the input.
ByFamily(faceList) ==
    LET firsts == SelectSeq([i \in 1..Len(faceList) |-> i],
                    LAMBDA i : \A j \in 1..(i - 1) :
                        FamilyKey(faceList[j]) # FamilyKey(faceList[i]))
    IN  [k \in 1..Len(firsts) |->
            [familyName |-> FamilyKey(faceList[firsts[k]]),
             faces |-> SelectSeq(faceList,
                 LAMBDA f : FamilyKey(f) = FamilyKey(faceList[firsts[k]]))]]

\* groupIntoFamilies(faces)
GroupIntoFamilies(faceList) ==
    LET entries == ByFamily(faceList)
        family(e) ==
            LET facesSorted ==
                    Sorted(e.faces, [i \in 1..Len(e.faces) |->
                                        LocaleRank(e.faces[i].styleName)])
            IN  [id |-> Sha1(e.familyName),
                 familyName |-> e.familyName,
                 faces |-> facesSorted,
                 representativeFaceId |-> PickRepresentativeFace(facesSorted).id]
        unsorted == [k \in 1..Len(entries) |-> family(entries[k])]
    IN  Sorted(unsorted, [k \in 1..Len(unsorted) |->
                             LocaleRank(unsorted[k].familyName)])

\* The faces handed to groupIntoFamilies: the id of a face is its place in
\* the index.
FaceListsOf(n) ==
    {[i \in 1..n |-> [id |-> i, familyName |-> names[i][1],
                      styleName |-> names[i][2]]] :
        names \in [1..n -> FamilyNames \X StyleNames]}

\* groupIntoFamilies has not returned.
NotGrouped == [done |-> FALSE, families |-> <<>>]

\* groupIntoFamilies has not been called.
GroupIdle == groupInput = <<>> /\ groupResult = NotGrouped

\* setFamilies(groupIntoFamilies(index.faces))
GroupFaces ==
    /\ groupResult = NotGrouped
    /\ groupResult' = [done |-> TRUE, families |-> GroupIntoFamilies(groupInput)]
    /\ UNCHANGED groupInput
    /\ UNCHANGED <<coreVars, startupVars, walkVars, generatorVars,
                   warmupVars>>

(***************************************************************************)
(* walkFiles.                                                              *)
(***************************************************************************)
\* The paths of the tree: node 1 is a root, the entries of the directory at
\* node n are at the nodes 2n and 2n + 1.
Nodes == 1..MaxNodes

Entries(n) == {m \in Nodes : m \div 2 = n /\ m > 1}

\* What is at a path: a directory, a directory fs.readdir fails on (it is
\* missing or may not be opened), a symbolic link, a file named x.ttf, a
\* file named x.TTF, a file named x.txt, or a socket.
NodeKinds == {"dir", "closedDir", "symlink", ".ttf", ".TTF", ".txt", "socket"}

\* const FONT_EXTENSIONS = [".otf", ".ttf", ".ttc", ".dfont"], lower-cased
Allowed == {".otf", ".ttf", ".ttc", ".dfont"}

\* The extension as it is written.
ExtnameAsWritten(kind) == kind

\* path.extname(dirent.name).toLowerCase() of a regular file
ExtnameLowerCase(kind) == IF kind = ".TTF" THEN ".ttf" ELSE kind

\* A failure of fs.readdir that ends the walk.
AbortWalk(queue) == <<>>

\* catch { continue }
SkipDirectory(queue) == queue

\* The entries of a directory pushed or collected, in the order of readdir.
RECURSIVE ReadEntries(_, _, _)
ReadEntries(fs, dirents, w) ==
    IF dirents = {} THEN w
    ELSE
        LET m == CHOOSE e \in dirents : \A o \in dirents : e <= o
            rest == dirents \ {m}
        IN  IF fs[m] = "symlink" THEN ReadEntries(fs, rest, w)
            ELSE IF fs[m] \in {"dir", "closedDir"}
            THEN ReadEntries(fs, rest, [w EXCEPT !.queue = Append(@, m)])
            ELSE IF fs[m] = "socket" THEN ReadEntries(fs, rest, w)
            ELSE IF ExtnameLowerCase(fs[m]) \in Allowed
            THEN ReadEntries(fs, rest, [w EXCEPT !.results = Append(@, m)])
            ELSE ReadEntries(fs, rest, w)

\* One turn of the while loop: queue.pop(), the await of fs.readdir, and the
\* loop over the dirents.
WalkStep ==
    /\ ~walk.returned
    /\ walk.queue # <<>>
    /\ LET current == walk.queue[Len(walk.queue)]
           popped == [walk EXCEPT !.queue = SubSeq(@, 1, Len(@) - 1)]
       IN  walk' =
             IF tree[current] # "dir"
             THEN [popped EXCEPT !.queue = SkipDirectory(@)]
             ELSE ReadEntries(tree, Entries(current),
                              [popped EXCEPT !.read = Append(@, current)])
    /\ UNCHANGED <<tree, roots>>
    /\ UNCHANGED <<coreVars, startupVars, groupVars, generatorVars,
                   warmupVars>>

\* return results
WalkReturns ==
    /\ ~walk.returned
    /\ walk.queue = <<>>
    /\ walk' = [walk EXCEPT !.returned = TRUE]
    /\ UNCHANGED <<tree, roots>>
    /\ UNCHANGED <<coreVars, startupVars, groupVars, generatorVars,
                   warmupVars>>

\* walkFiles has not been called.
WalkIdle ==
    /\ tree = [n \in Nodes |-> "closedDir"]
    /\ roots = <<>>
    /\ walk = [queue |-> <<>>, results |-> <<>>, read |-> <<>>,
               returned |-> TRUE]

WalkNext == WalkStep \/ WalkReturns

(***************************************************************************)
(* One preview request with its failures (font-preview.ts): the vector     *)
(* generator, the raster generator and the promise getFontPreview returns. *)
(***************************************************************************)
\* The extensions of the font files a preview is asked for.
Extensions == {".ttf", ".otf", ".ttc", ".dfont", ".TTC"}

\* path.extname(filePath).toLowerCase()
ExtToLowerCase(ext) == IF ext = ".TTC" THEN ".ttc" ELSE ext

\* The test that compares the extension as it is written.
ShouldSelectAsWritten(ext) == ext = ".ttc" \/ ext = ".dfont"

\* shouldSelectByPostscript: the file is a collection container.
ShouldSelectByPostscript(ext) ==
    ExtToLowerCase(ext) = ".ttc" \/ ExtToLowerCase(ext) = ".dfont"

\* How a promise of a preview settles, and "none" while it has not.
Outcomes == {"path", "null", "rejected"}

\* try { vector = await getVectorPreviewSvg(...) } catch { vector = null }
VectorOrNull(outcome) == IF outcome = "rejected" THEN "null" ELSE outcome

\* A promise chain without a rejection handler.
Rethrow(outcome) == outcome

\* .catch(() => null)
CatchNull(outcome) == IF outcome = "rejected" THEN "null" ELSE outcome

\* A scratch directory that is left behind.
KeepTmpDir(dirs, dir) == dirs

\* fs.rm(tmpDir, { recursive: true, force: true })
RemoveTmpDir(dirs, dir) == dirs \ {dir}

\* What generateQuickLookThumbnail meets: qlmanage fails, qlmanage is killed
\* after its timeout, the scratch directory holds no png, the scratch
\* directory cannot be listed, or a png is there.
ThumbnailEvents == {"processError", "timeout", "noOutput", "readdirFails",
                    "png"}

\* generateQuickLookThumbnail: the path of the png, or null.
GenerateQuickLookThumbnail(event) == IF event = "png" THEN "path" ELSE "null"

\* What buildVectorPreviewSvg does: returns the svg text, returns null, or
\* throws outside its own try blocks.
SvgEvents == {"svg", "null", "throws"}

\* The next position of the request, with the fields that change.
At(pc, changes) == [f \in DOMAIN preview |->
                       IF f = "pc" THEN pc
                       ELSE IF f \in DOMAIN changes THEN changes[f]
                       ELSE preview[f]]

\* The vector stage is over with this outcome: if (vector) return vector,
\* otherwise getPreviewImage is called.
VectorSettles(outcome, changes) ==
    IF VectorOrNull(outcome) = "path"
    THEN At("settle", changes @@ [vector |-> outcome, returning |-> "path"])
    ELSE At("rasterMkdir", changes @@ [vector |-> outcome,
                                        rasterCalls |-> preview.rasterCalls + 1])

\* getPreviewImage is over with this outcome before it made a scratch
\* directory.
RasterSettles(outcome) ==
    At("settle", [raster |-> outcome, returning |-> outcome])

\* getFontPreview is called: the async body starts with the vector
\* generator.
GetFontPreviewCalled ==
    /\ preview.pc = "idle"
    /\ preview.calls < MaxPreviewCalls
    /\ preview' = At("vectorMkdir",
                     [calls |-> preview.calls + 1,
                      vectorCalls |-> preview.vectorCalls + 1,
                      vector |-> "none", raster |-> "none",
                      returning |-> "none", result |-> "pending",
                      tmpDir |-> 0, rmFailed |-> FALSE])
    /\ UNCHANGED fontFile
    /\ UNCHANGED <<coreVars, startupVars, groupVars, walkVars,
                   warmupVars>>

\* await fs.mkdir(previewDir, { recursive: true })
VectorMkdir(ok) ==
    /\ preview.pc = "vectorMkdir"
    /\ preview' = IF ok THEN At("vectorAccess", <<>>)
                  ELSE VectorSettles("rejected", <<>>)
    /\ UNCHANGED fontFile
    /\ UNCHANGED <<coreVars, startupVars, groupVars, walkVars,
                   warmupVars>>

\* if (await fileExists(previewPath)) return previewPath
VectorAccess ==
    /\ preview.pc = "vectorAccess"
    /\ preview' = IF preview.vectorFile THEN VectorSettles("path", <<>>)
                  ELSE At("vectorBuild", <<>>)
    /\ UNCHANGED fontFile
    /\ UNCHANGED <<coreVars, startupVars, groupVars, walkVars,
                   warmupVars>>

\* const svg = buildVectorPreviewSvg(...); if (!svg) return null
VectorBuild(event) ==
    /\ preview.pc = "vectorBuild"
    /\ preview' = CASE event = "svg" -> At("vectorWrite", <<>>)
                    [] event = "null" -> VectorSettles("null", <<>>)
                    [] OTHER -> VectorSettles("rejected", <<>>)
    /\ UNCHANGED fontFile
    /\ UNCHANGED <<coreVars, startupVars, groupVars, walkVars,
                   warmupVars>>

\* await fs.writeFile(previewPath, svg, "utf8"); return previewPath. A write
\* that fails may have made the file already.
WriteSvg(ok, made) ==
    /\ preview.pc = "vectorWrite"
    /\ preview' = IF ok THEN VectorSettles("path", [vectorFile |-> TRUE])
                  ELSE VectorSettles("rejected", [vectorFile |-> made])
    /\ UNCHANGED fontFile
    /\ UNCHANGED <<coreVars, startupVars, groupVars, walkVars,
                   warmupVars>>

\* await fs.mkdir(cacheDir, { recursive: true }), outside any try block
RasterMkdir(ok) ==
    /\ preview.pc = "rasterMkdir"
    /\ preview' = IF ok THEN At("rasterAccess", <<>>)
                  ELSE RasterSettles("rejected")
    /\ UNCHANGED fontFile
    /\ UNCHANGED <<coreVars, startupVars, groupVars, walkVars,
                   warmupVars>>

\* if (await fileExists(cached)) return cached
RasterAccess ==
    /\ preview.pc = "rasterAccess"
    /\ preview' = IF preview.rasterFile THEN RasterSettles("path")
                  ELSE At("tmpBase", <<>>)
    /\ UNCHANGED fontFile
    /\ UNCHANGED <<coreVars, startupVars, groupVars, walkVars,
                   warmupVars>>

\* await fs.mkdir(tmpBase, { recursive: true }), outside any try block
TmpBaseMkdir(ok) ==
    /\ preview.pc = "tmpBase"
    /\ preview' = IF ok THEN At("mkdtemp", <<>>)
                  ELSE RasterSettles("rejected")
    /\ UNCHANGED fontFile
    /\ UNCHANGED <<coreVars, startupVars, groupVars, walkVars,
                   warmupVars>>

\* const tmpDir = await fs.mkdtemp(...), outside any try block
Mkdtemp(ok) ==
    /\ preview.pc = "mkdtemp"
    /\ preview' = IF ok
                  THEN At("thumbnail",
                          [tmpDir |-> preview.created + 1,
                           created |-> preview.created + 1,
                           tmpDirs |-> preview.tmpDirs
                                           \cup {preview.created + 1}])
                  ELSE RasterSettles("rejected")
    /\ UNCHANGED fontFile
    /\ UNCHANGED <<coreVars, startupVars, groupVars, walkVars,
                   warmupVars>>

\* const generated = await generateQuickLookThumbnail(...);
\* if (!generated) return null
Thumbnail(event) ==
    /\ preview.pc = "thumbnail"
    /\ preview' = IF GenerateQuickLookThumbnail(event) = "path"
                  THEN At("copy", <<>>)
                  ELSE At("rm", [returning |-> "null"])
    /\ UNCHANGED fontFile
    /\ UNCHANGED <<coreVars, startupVars, groupVars, walkVars,
                   warmupVars>>

\* await fs.copyFile(generated, cached); return cached, and catch
\* { return null }. A copy that fails may have made the file already.
CopyFile(ok, made) ==
    /\ preview.pc = "copy"
    /\ preview' = IF ok THEN At("rm", [returning |-> "path",
                                       rasterFile |-> TRUE])
                  ELSE At("rm", [returning |-> "null",
                                 rasterFile |-> preview.rasterFile \/ made])
    /\ UNCHANGED fontFile
    /\ UNCHANGED <<coreVars, startupVars, groupVars, walkVars,
                   warmupVars>>

\* finally { try { await fs.rm(tmpDir, ...) } catch {} }, after which
\* getPreviewImage settles with what the try block returned.
RemoveScratch(ok) ==
    /\ preview.pc = "rm"
    /\ preview' = At("settle",
                     [raster |-> preview.returning,
                      rmFailed |-> ~ok,
                      tmpDirs |-> IF ok
                                  THEN RemoveTmpDir(preview.tmpDirs,
                                                    preview.tmpDir)
                                  ELSE preview.tmpDirs])
    /\ UNCHANGED fontFile
    /\ UNCHANGED <<coreVars, startupVars, groupVars, walkVars,
                   warmupVars>>

\* .catch(() => null).finally(...): the promise the caller holds settles.
PreviewSettles ==
    /\ preview.pc = "settle"
    /\ preview' = At("idle", [result |-> CatchNull(preview.returning)])
    /\ UNCHANGED fontFile
    /\ UNCHANGED <<coreVars, startupVars, groupVars, walkVars,
                   warmupVars>>

\* No preview has been asked for.
NoPreview ==
    [pc |-> "idle", calls |-> 0, vectorCalls |-> 0, rasterCalls |-> 0,
     vector |-> "none", raster |-> "none", returning |-> "none",
     result |-> "pending", tmpDir |-> 0, created |-> 0, tmpDirs |-> {},
     rmFailed |-> FALSE, vectorFile |-> FALSE, rasterFile |-> FALSE]

GeneratorIdle == fontFile = ".ttf" /\ preview = NoPreview

\* The steps that the runtime takes once getFontPreview was called.
GeneratorSteps ==
    \/ \E ok \in BOOLEAN : VectorMkdir(ok)
    \/ VectorAccess
    \/ \E event \in SvgEvents : VectorBuild(event)
    \/ \E ok, made \in BOOLEAN : WriteSvg(ok, made)
    \/ \E ok \in BOOLEAN : RasterMkdir(ok)
    \/ RasterAccess
    \/ \E ok \in BOOLEAN : TmpBaseMkdir(ok)
    \/ \E ok \in BOOLEAN : Mkdtemp(ok)
    \/ \E event \in ThumbnailEvents : Thumbnail(event)
    \/ \E ok, made \in BOOLEAN : CopyFile(ok, made)
    \/ \E ok \in BOOLEAN : RemoveScratch(ok)
    \/ PreviewSettles

GeneratorNext == GetFontPreviewCalled \/ GeneratorSteps

(***************************************************************************)
(* buildVectorPreviewSvg (font-preview.ts), called for two file names that *)
(* hold the same bytes.                                                    *)
(***************************************************************************)
\* What openSync is given as its second argument: null, or a PostScript
\* name.
Selectors == {"null", "A"}

\* What openSync does with the bytes of a file: it returns a font, it
\* returns an object that is no font (a collection that was not asked for a
\* face), or it throws.
OpenOutcomes == {"font", "collection", "throws"}

\* The bytes of a font file, as what openSync makes of them for each
\* selector.
FileBytes == [Selectors -> OpenOutcomes]

\* options.postscriptName and options.familyName
PostscriptNames == {"undefined", "A"}

TitleNames == {"undefined", "Arial", "A&B"}

\* shouldSelectByPostscript(options.filePath)
\*     ? (options.postscriptName ?? null) : null
SelectorGiven(ext, postscriptName) ==
    IF ShouldSelectByPostscript(ext) /\ postscriptName # "undefined"
    THEN postscriptName
    ELSE "null"

\* escapeXml, on the names of the model
EscapeXml(text) == IF text = "A&B" THEN "A&amp;B" ELSE text

\* escapeXml(options.familyName ?? "Font Preview")
TitleOf(familyName) ==
    EscapeXml(IF familyName = "undefined" THEN "Font Preview" ELSE familyName)

\* return null
NoSvg == [isNull |-> TRUE, paths |-> <<>>, title |-> ""]

\* buildVectorPreviewSvg: null when openSync throws or font.layout does, and
\* otherwise the title and the outlines of the sample text, which come from
\* the bytes, the face that was selected and the family name.
BuildVectorPreviewSvg(ext, bytes, postscriptName, familyName) ==
    LET selector == SelectorGiven(ext, postscriptName)
    IN IF bytes[selector] # "font" THEN NoSvg
       ELSE [isNull |-> FALSE,
             paths |-> <<bytes, selector, familyName>>,
             title |-> TitleOf(familyName)]

\* buildVectorPreviewSvg has not returned.
NotBuilt == [done |-> FALSE, svg |-> NoSvg]

\* const svg = buildVectorPreviewSvg(...) for the file name i.
BuildSvg(i) ==
    /\ svgResult # <<>>
    /\ ~svgResult[i].done
    /\ svgResult' =
         [svgResult EXCEPT
            ![i] = [done |-> TRUE,
                    svg |-> BuildVectorPreviewSvg(svgInput.ext[i],
                                                  svgInput.bytes,
                                                  svgInput.postscriptName,
                                                  svgInput.familyName)]]
    /\ UNCHANGED <<svgInput, sampleInput, sampleResult, keyInput, keyResult>>
    /\ UNCHANGED <<idInput, idResult, staleInput, staleResult>>
    /\ UNCHANGED <<queueVars, resolverVars, commandVars, indexVars, buildVars,
                   laterVars>>

SvgNext == \E i \in 1..2 : BuildSvg(i)

(***************************************************************************)
(* The warmup effect of the command with its inputs.                       *)
(***************************************************************************)
\* The families of the index: the first one has a hidden family name.
WarmupFamilies == <<1, 2, 3>>

\* families, or families.filter((f) => !isHiddenFamilyName(f.familyName)),
\* of an empty index and of the index of WarmupFamilies.
VisibleLists == {<<>>, WarmupFamilies, Tail(WarmupFamilies)}

\* The texts of the search bar: typed characters.
SearchTexts == {<<" ">>, <<"a">>, <<"B", "-">>}

\* familyKeywordsById.get(family.id)
FamilyKeywords(family) ==
    CASE family = 1 -> << <<"b", "a">> >>
      [] family = 2 -> << <<"a", "b">>, <<"b">> >>
      [] family = 3 -> << <<"a">> >>

\* family.faces
FamilyFaces(family) ==
    << [id |-> 10 * family + 1, styleName |-> "Bold"],
       [id |-> 10 * family + 2, styleName |-> "Regular"] >>

\* value.toLowerCase(), character by character
CharToLowerCase(c) ==
    CASE c = "A" -> "a"
      [] c = "B" -> "b"
      [] OTHER -> c

\* value.trim().toLowerCase().replace(/[\s_-]+/g, "")
NormalizeSearchText(value) ==
    SelectSeq([i \in 1..Len(value) |-> CharToLowerCase(value[i])],
              LAMBDA c : c \notin {" ", "_", "-"})

\* keyword.startsWith(normalizedQuery)
StartsWith(keyword, query) ==
    /\ Len(query) <= Len(keyword)
    /\ SubSeq(keyword, 1, Len(query)) = query

\* keyword.includes(normalizedQuery)
Includes(keyword, query) ==
    \E i \in 1..(Len(keyword) - Len(query) + 1) :
        SubSeq(keyword, i, i + Len(query) - 1) = query

\* Math.min(best, score)
MathMin(a, b) == IF a < b THEN a ELSE b

\* The loop of getSearchScore from keyword i on; Infinity is written 5.
RECURSIVE BestFrom(_, _, _, _)
BestFrom(keywords, query, i, best) ==
    IF i > Len(keywords) THEN (IF best < 5 THEN best ELSE 4)
    ELSE IF keywords[i] = query THEN 0
    ELSE IF StartsWith(keywords[i], query)
    THEN BestFrom(keywords, query, i + 1, MathMin(best, 1))
    ELSE IF Includes(keywords[i], query)
    THEN BestFrom(keywords, query, i + 1, MathMin(best, 2))
    ELSE BestFrom(keywords, query, i + 1, best)

\* getSearchScore(keywords, normalizedQuery)
GetSearchScore(keywords, normalizedQuery) ==
    IF normalizedQuery = <<>> THEN 3
    ELSE BestFrom(keywords, normalizedQuery, 1, 5)

\* visibleFamilies.map(...): the representative face of each family with
\* the score of the family.
ScoredEntries(visible, searchText) ==
    [i \in 1..Len(visible) |->
        [faceId |-> PickRepresentativeFace(FamilyFaces(visible[i])).id,
         score |-> GetSearchScore(FamilyKeywords(visible[i]),
                                  NormalizeSearchText(searchText))]]

\* .sort((a, b) => a.score - b.score)
Prioritized(visible, searchText) ==
    LET entries == ScoredEntries(visible, searchText)
    IN  Sorted(entries, [i \in 1..Len(entries) |-> entries[i].score])

\* The run tokens of the warmup effect.
WarmupTokens == 1..MaxWarmupToken

\* The test that takes no run for superseded.
NeverSuperseded(token, runToken) == FALSE

\* warmupRunTokenRef.current !== runToken
IsSuperseded(token, runToken) == token # runToken

\* The for loop of a run from position pos to its next await: the position
\* of the face it calls getFontPreview for, 0 when the loop ends. Every face
\* id of the entries is a key of allFacesById.
NextCall(runToken, pos) ==
    IF IsSuperseded(warmupRunTokenRef, runToken) THEN 0
    ELSE IF pos > Len(warmupEntries[runToken]) THEN 0
    ELSE pos

\* The loop of a run goes on from position pos; rest are the other loops.
LoopGoesOn(rest, runToken, pos) ==
    LET at == NextCall(runToken, pos)
    IN  /\ warmupLoops' =
             IF at = 0 THEN rest
             ELSE rest \cup {[runToken |-> runToken, pos |-> at]}
        /\ warmupCalls' =
             IF at = 0 THEN warmupCalls
             ELSE [warmupCalls EXCEPT
                     ![runToken] = Append(@, warmupEntries[runToken][at])]

\* The run tokens the cleanup of the last run supersedes.
CleanedUp == IF warmupCleanup = 0 THEN {} ELSE {warmupCleanup}

\* The command renders with a search text and visible families (a new
\* text, a toggle of the hidden fonts, a loaded or rebuilt index): the
\* cleanup of the last run of the warmup effect, then its body.
WarmupEffect(searchText, visible) ==
    /\ mounted
    /\ warmupRunTokenRef + 2 <= MaxWarmupToken
    /\ warmupSearchText' = searchText
    /\ visibleFamilies' = visible
    /\ superseded' = superseded \cup CleanedUp
    /\ LET token == AfterCleanup(warmupRunTokenRef, warmupCleanup)
       IN IF Len(visible) = 0
          THEN /\ warmupRunTokenRef' = token
               /\ warmupCleanup' = 0
               /\ warmupTimer' = 0
               /\ UNCHANGED warmupEntries
          ELSE /\ warmupRunTokenRef' = token + 1
               /\ warmupCleanup' = token + 1
               /\ warmupTimer' = token + 1
               /\ warmupEntries' =
                    [warmupEntries EXCEPT
                       ![token + 1] = Prioritized(visible, searchText)]
    /\ UNCHANGED <<mounted, warmupCalls, warmupLoops>>
    /\ UNCHANGED <<detailFamilyId, commandPreviewByFaceId,
                   previewLoadingFaceId, droppedCalls,
                   selectedPreviewRunTokenRef, selectedCleanup, selectedCalls>>
    /\ UNCHANGED <<queueVars, resolverVars, indexVars, buildVars, functionVars,
                   startupVars, groupVars, walkVars, generatorVars>>

\* The command is unmounted: the cleanup of the last run.
CommandUnmounts ==
    /\ mounted
    /\ mounted' = FALSE
    /\ superseded' = superseded \cup CleanedUp
    /\ warmupRunTokenRef' = AfterCleanup(warmupRunTokenRef, warmupCleanup)
    /\ warmupCleanup' = 0
    /\ warmupTimer' = 0
    /\ UNCHANGED <<visibleFamilies, warmupSearchText, warmupEntries,
                   warmupCalls, warmupLoops>>
    /\ UNCHANGED <<detailFamilyId, commandPreviewByFaceId,
                   previewLoadingFaceId, droppedCalls,
                   selectedPreviewRunTokenRef, selectedCleanup, selectedCalls>>
    /\ UNCHANGED <<queueVars, resolverVars, indexVars, buildVars, functionVars,
                   startupVars, groupVars, walkVars, generatorVars>>

\* The timer of a run fires after 180 ms: its loop starts.
WarmupLoopStarts ==
    /\ warmupTimer # 0
    /\ warmupTimer' = 0
    /\ LoopGoesOn(warmupLoops, warmupTimer, 1)
    /\ UNCHANGED <<mounted, visibleFamilies, warmupSearchText, warmupEntries,
                   superseded, warmupRunTokenRef, warmupCleanup>>
    /\ UNCHANGED <<detailFamilyId, commandPreviewByFaceId,
                   previewLoadingFaceId, droppedCalls,
                   selectedPreviewRunTokenRef, selectedCleanup, selectedCalls>>
    /\ UNCHANGED <<queueVars, resolverVars, indexVars, buildVars, functionVars,
                   startupVars, groupVars, walkVars, generatorVars>>

\* The getFontPreview call a loop awaits settles, resolved or rejected: the
\* loop goes on with its next face.
WarmupLoopResumes(loop) ==
    /\ loop \in warmupLoops
    /\ LoopGoesOn(warmupLoops \ {loop}, loop.runToken, loop.pos + 1)
    /\ UNCHANGED <<mounted, visibleFamilies, warmupSearchText, warmupEntries,
                   superseded, warmupRunTokenRef, warmupCleanup, warmupTimer>>
    /\ UNCHANGED <<detailFamilyId, commandPreviewByFaceId,
                   previewLoadingFaceId, droppedCalls,
                   selectedPreviewRunTokenRef, selectedCleanup, selectedCalls>>
    /\ UNCHANGED <<queueVars, resolverVars, indexVars, buildVars, functionVars,
                   startupVars, groupVars, walkVars, generatorVars>>

WarmupIdle ==
    /\ mounted = TRUE
    /\ visibleFamilies = <<>>
    /\ warmupSearchText = <<>>
    /\ warmupEntries = [t \in WarmupTokens |-> <<>>]
    /\ warmupCalls = [t \in WarmupTokens |-> <<>>]
    /\ superseded = {}

WarmupNext ==
    \/ \E searchText \in SearchTexts, visible \in VisibleLists :
          WarmupEffect(searchText, visible)
    \/ CommandUnmounts
    \/ WarmupLoopStarts
    \/ \E loop \in warmupLoops : WarmupLoopResumes(loop)

(***************************************************************************)
(* The queue of the styles screen.                                         *)
(***************************************************************************)
\* The face lists the styles screen is given: all faces, or all but some of
\* the faces 1..MaxLeaving.
FaceLists == {FaceIds \ gone : gone \in SUBSET (1..MaxLeaving)}

\* The lists handed to enqueuePreviews: the empty list and the lists of
\* MaxBatch distinct faces in the order of the face list.
BatchLists ==
    {<<>>} \cup {s \in SeqsUpTo(FaceIds, MaxBatch) :
                    /\ Len(s) = MaxBatch
                    /\ \A i \in 1..(Len(s) - 1) : s[i] < s[i + 1]}

QueueInit ==
    /\ faces = FaceIds
    /\ queueRef = <<>>
    /\ queuedSetRef = {}
    /\ runningSetRef = {}
    /\ activeCountRef = 0
    /\ disposedRef = FALSE
    /\ previewByFaceId = [f \in FaceIds |-> Undefined]
    /\ previewByFaceIdRef = [f \in FaceIds |-> Undefined]
    /\ tasks = EmptyBag
    /\ timers = <<>>
    /\ pendingPriority = [f \in FaceIds |-> "none"]

\* The calls the queue can have in flight.
Tasks == [face : FaceIds, closure : FaceLists]

\* The hook with the face list it was mounted with.
QueueNext ==
    \/ \E f \in FaceIds \cup {EmptyId}, p \in PreviewPriority :
          EnqueuePreview(f, p)
    \/ \E ids \in BatchLists, p \in PreviewPriority : EnqueuePreviews(ids, p)
    \/ \E t \in Tasks, r \in PreviewResults : GenerationSettles(t, r)
    \/ TimerFires
    \/ SyncPreviewRef

\* The hook when the styles screen is handed new face lists.
QueueFacesNext ==
    \/ QueueNext
    \/ \E allowed \in FaceLists : FacesChange(allowed)

\* The hook until it is unmounted, and its outstanding calls after that.
QueueLifeNext ==
    \/ QueueFacesNext
    \/ Dispose

Init ==
    /\ QueueInit /\ ResolverInit /\ CommandInit /\ IndexIdle /\ BuildIdle
    /\ FunctionsIdle /\ StartupIdle /\ GroupIdle /\ WalkIdle /\ GeneratorIdle
    /\ WarmupIdle

Next == QueueNext

Spec == Init /\ [][Next]_vars

SpecFaces == Init /\ [][QueueFacesNext]_vars

SpecUnmount == Init /\ [][QueueLifeNext]_vars

\* getFontPreview and its callers.
ResolverSpec == Init /\ [][ResolverNext]_vars

\* The command with the styles screen pushed on top of it.
SystemSpec == Init /\ [][SystemNext]_vars

RecordSpec == Init /\ [][RecordNext]_vars

\* The command with its selected preview effect.
CommandSpec == Init /\ [][CommandNext]_vars

\* loadFontIndex on every file the index path can hold.
IndexInit ==
    /\ QueueInit /\ ResolverInit /\ CommandInit /\ BuildIdle /\ FunctionsIdle
    /\ StartupIdle /\ GroupIdle /\ WalkIdle /\ GeneratorIdle
    /\ WarmupIdle
    /\ indexFile \in IndexFiles
    /\ loadResult = NotLoaded
    /\ loadedFile = MissingFile

\* The builds of an index over every file system, with or without an index
\* from an earlier run.
BuildInit ==
    /\ QueueInit /\ ResolverInit /\ CommandInit /\ FunctionsIdle
    /\ StartupIdle /\ GroupIdle /\ WalkIdle /\ GeneratorIdle
    /\ WarmupIdle
    /\ indexFile \in {MissingFile, PreviousFile}
    /\ loadResult = NotLoaded
    /\ loadedFile = MissingFile
    /\ fontFiles \in [FontPaths -> FileContents]
    /\ builds = [b \in Builds |-> IdleBuild]

BuildSpec == BuildInit /\ [][BuildNext]_vars

\* The ids of every two fonts.
IdInit ==
    /\ QueueInit /\ ResolverInit /\ CommandInit /\ IndexIdle /\ BuildIdle
    /\ StartupIdle /\ GroupIdle /\ WalkIdle /\ GeneratorIdle
    /\ WarmupIdle
    /\ idInput \in Triples \X Triples
    /\ idResult = <<>>
    /\ staleInput = [builtAt |-> [isDate |-> FALSE, ms |-> 0], now |-> 0]
    /\ staleResult = "none"
    /\ PreviewFunctionsIdle

IdSpec == IdInit /\ [][ComputeIds]_vars

\* pickSampleText on every font and every family name.
SampleInit ==
    /\ QueueInit /\ ResolverInit /\ CommandInit /\ IndexIdle /\ BuildIdle
    /\ StartupIdle /\ GroupIdle /\ WalkIdle /\ GeneratorIdle
    /\ WarmupIdle
    /\ idInput = <<>>
    /\ idResult = <<>>
    /\ staleInput = [builtAt |-> [isDate |-> FALSE, ms |-> 0], now |-> 0]
    /\ staleResult = "none"
    /\ sampleInput \in [font : SampleFonts, familyName : SampleNames]
    /\ sampleResult = Unpicked
    /\ KeysIdle /\ SvgIdle

SampleSpec == SampleInit /\ [][PickSample]_vars

\* The cache paths of every two requests.
KeysInit ==
    /\ QueueInit /\ ResolverInit /\ CommandInit /\ IndexIdle /\ BuildIdle
    /\ StartupIdle /\ GroupIdle /\ WalkIdle /\ GeneratorIdle
    /\ WarmupIdle
    /\ idInput = <<>>
    /\ idResult = <<>>
    /\ staleInput = [builtAt |-> [isDate |-> FALSE, ms |-> 0], now |-> 0]
    /\ staleResult = "none"
    /\ SampleIdle /\ SvgIdle
    /\ keyInput \in Requests \X Requests
    /\ keyResult = <<>>

KeysSpec == KeysInit /\ [][ComputeCachePaths]_vars

\* buildVectorPreviewSvg on every font file, under every two extensions.
SvgInit ==
    /\ QueueInit /\ ResolverInit /\ CommandInit /\ IndexIdle /\ BuildIdle
    /\ StartupIdle /\ GroupIdle /\ WalkIdle /\ GeneratorIdle
    /\ WarmupIdle
    /\ idInput = <<>>
    /\ idResult = <<>>
    /\ staleInput = [builtAt |-> [isDate |-> FALSE, ms |-> 0], now |-> 0]
    /\ staleResult = "none"
    /\ SampleIdle /\ KeysIdle
    /\ svgInput \in [ext : Extensions \X Extensions, bytes : FileBytes,
                      postscriptName : PostscriptNames,
                      familyName : TitleNames]
    /\ svgResult = <<NotBuilt, NotBuilt>>

SvgSpec == SvgInit /\ [][SvgNext]_vars

\* isIndexStale on every builtAt text and every reading of the clock.
StaleInit ==
    /\ QueueInit /\ ResolverInit /\ CommandInit /\ IndexIdle /\ BuildIdle
    /\ StartupIdle /\ GroupIdle /\ WalkIdle /\ GeneratorIdle
    /\ WarmupIdle
    /\ idInput = <<>>
    /\ idResult = <<>>
    /\ staleInput \in [builtAt : BuiltAtTexts, now : Nows]
    /\ staleResult = "none"
    /\ PreviewFunctionsIdle

StaleSpec == StaleInit /\ [][CheckStale]_vars

\* The startup of the command on every index file and every age of it.
StartupInit ==
    /\ QueueInit /\ ResolverInit /\ CommandInit /\ BuildIdle
    /\ StartupIdle /\ GroupIdle /\ WalkIdle /\ GeneratorIdle
    /\ WarmupIdle
    /\ indexFile \in StartupFiles
    /\ loadResult = NotLoaded
    /\ loadedFile = MissingFile
    /\ idInput = <<>>
    /\ idResult = <<>>
    /\ staleInput \in [builtAt : BuiltAtTexts, now : Nows]
    /\ staleResult = "none"
    /\ PreviewFunctionsIdle

StartupSpec == StartupInit /\ [][StartupNext]_vars

RebuildSpec == StartupInit /\ [][RebuildNext]_vars

\* groupIntoFamilies on every list of up to MaxGroupFaces faces.
GroupInit ==
    /\ QueueInit /\ ResolverInit /\ CommandInit /\ IndexIdle /\ BuildIdle
    /\ FunctionsIdle
    /\ StartupIdle /\ WalkIdle /\ GeneratorIdle
    /\ WarmupIdle
    /\ groupInput \in UNION {FaceListsOf(n) : n \in 0..MaxGroupFaces}
    /\ groupResult = NotGrouped

GroupSpec == GroupInit /\ [][GroupFaces]_vars

\* walkFiles on every tree, with node 1 and the node 2 inside it as roots,
\* alone, repeated or together; a root is no symbolic link.  The function
\* resumes whenever its await settles.
WalkInit ==
    /\ QueueInit /\ ResolverInit /\ CommandInit /\ IndexIdle /\ BuildIdle
    /\ FunctionsIdle
    /\ StartupIdle /\ GroupIdle /\ GeneratorIdle
    /\ WarmupIdle
    /\ tree \in [Nodes -> NodeKinds]
    /\ roots \in UNION {[1..n -> 1..2] : n \in 1..2}
    /\ \A i \in 1..Len(roots) : tree[roots[i]] # "symlink"
    /\ walk = [queue |-> roots, results |-> <<>>, read |-> <<>>,
               returned |-> FALSE]

WalkSpec == WalkInit /\ [][WalkNext]_vars /\ WF_vars(WalkNext)

\* Preview requests, one after the other, for a file of every extension,
\* with and without previews made earlier.
GeneratorInit ==
    /\ QueueInit /\ ResolverInit /\ CommandInit /\ IndexIdle /\ BuildIdle
    /\ FunctionsIdle
    /\ StartupIdle /\ GroupIdle /\ WalkIdle /\ WarmupIdle
    /\ fontFile \in Extensions
    /\ \E v, r \in BOOLEAN :
          preview = [NoPreview EXCEPT !.vectorFile = v, !.rasterFile = r]

\* Every file system call and qlmanage (timeout: 20000) come back.
GeneratorSpec ==
    GeneratorInit /\ [][GeneratorNext]_vars /\ WF_vars(GeneratorSteps)

IndexSpec == IndexInit /\ [][IndexNext]_vars

\* The queue when every generation settles, every timer fires and every
\* render commits: the event loop runs each callback that is ready.
QueueFairness ==
    /\ \A t \in Tasks :
          WF_vars(\E r \in PreviewResults : GenerationSettles(t, r))
    /\ WF_vars(TimerFires)
    /\ WF_vars(SyncPreviewRef)

FairSpec == Init /\ [][QueueFacesNext]_vars /\ QueueFairness

(***************************************************************************)
(* Properties of the preview queue.                                        *)
(***************************************************************************)
Pending == Range(queueRef)

\* The faces with a generation of the queue in flight.
InFlight == {t.face : t \in BagToSet(tasks)}

\* How many generations of the queue are in flight for a face.
TaskCount(ts, f) ==
    BagCardinality([t \in {u \in BagToSet(ts) : u.face = f} |-> ts[t]])

\* A result (a path or null) has been recorded for the face.
IsResolved(f) == previewByFaceId[f] # Undefined

\* The faces whose generation this step starts.
StartedNow ==
    {t.face : t \in {u \in BagToSet(tasks') : CopiesIn(u, tasks') > CopiesIn(u, tasks)}}

\* C1: the number of generations started by the queue and not yet settled
\* never exceeds the concurrency limit.
C1_InFlightWithinLimit == BagCardinality(tasks) <= concurrency

\* More requests than the limit: the limit is reached and a request waits.
C1_Witness == BagCardinality(tasks) = concurrency /\ queueRef # <<>>

\* C2: no face is twice in the pending list, no face is both pending and in
\* flight, and no face has two generations of the queue in flight.
C2_NoDuplicateRequest ==
    /\ \A i, j \in 1..Len(queueRef) : i # j => queueRef[i] # queueRef[j]
    /\ Pending \cap InFlight = {}
    /\ \A f \in FaceIds : TaskCount(tasks, f) <= 1

\* C3: once the generation of a face has resolved, no enqueue call puts the
\* face back in the pending list or starts another generation for it.
C3_ResolvedNeverReenqueued ==
    [][\A f \in FaceIds :
          (IsResolved(f) /\ f \notin Pending) =>
             /\ f \notin Range(queueRef')
             /\ TaskCount(tasks', f) <= TaskCount(tasks, f)]_vars

\* a is served before b: a is not left waiting when b is admitted, and when
\* both wait a is in front.
ServedBefore(a, b) ==
    /\ ~(b \in StartedNow /\ a \in Range(queueRef'))
    /\ (a \in Range(queueRef') /\ b \in Range(queueRef')) =>
          IndexOf(queueRef', a) < IndexOf(queueRef', b)

\* The pending list is served from its head: a request is admitted only when
\* every request in front of it has left the list, and those that stay keep
\* their order.
ServedFromHead ==
    \A i, j \in 1..Len(queueRef) :
        i < j => ServedBefore(queueRef[i], queueRef[j])

\* The step changes the pending list or starts a generation.
QueueMoves == queueRef' # queueRef \/ tasks' # tasks

\* The requests a step inserts: served or waiting after it, not pending before.
Inserted == (StartedNow \cup Range(queueRef')) \ Pending

\* Those of them that wait after the step, with the priority of the call.
InsertedHigh ==
    {f \in Inserted \cap Range(queueRef') : pendingPriority'[f] = "high"}

InsertedNormal ==
    {f \in Inserted \cap Range(queueRef') : pendingPriority'[f] = "normal"}

\* The ids of one call keep the order of the list they were given in (the
\* lists are in the order of the face ids).
GivenOrderKept ==
    \A f, g \in Inserted : f < g => ServedBefore(f, g)

\* C7: a request enqueued with priority high is placed in front of every
\* pending request and one enqueued with priority normal behind every one; no
\* request that was pending is admitted before a high request enqueued later
\* has left the list; enqueuePreviews(ids, high) leaves ids in their given
\* order at the front.
C7_PriorityPlacement ==
    [][QueueMoves =>
       /\ ServedFromHead
       /\ GivenOrderKept
       /\ \A a \in Pending :
            /\ \A f \in InsertedHigh : ServedBefore(f, a)
            /\ \A f \in InsertedNormal : ServedBefore(a, f)]_vars

\* The limit is reached, and a high request waits in front of an older
\* normal one.
C7_Witness ==
    /\ BagCardinality(tasks) = concurrency
    /\ Len(queueRef) >= 2
    /\ pendingPriority[queueRef[1]] = "high"
    /\ pendingPriority[queueRef[2]] = "normal"

\* No pending normal request is in front of a pending high request.
HighFirst ==
    \A i, j \in 1..Len(queueRef) :
        i < j => ~(/\ pendingPriority[queueRef[i]] = "normal"
                   /\ pendingPriority[queueRef[j]] = "high")

\* C8 as stated: admission is priority-first, and of two pending requests of
\* the same priority the one inserted earlier is admitted first.
C8_PriorityThenInsertionOrder ==
    [][QueueMoves =>
       /\ HighFirst'
       /\ ServedFromHead
       /\ \A a \in Pending :
            /\ \A f \in InsertedHigh :
                 pendingPriority[a] = "high" => ServedBefore(a, f)
            /\ \A f \in InsertedNormal :
                 pendingPriority[a] = "normal" => ServedBefore(a, f)]_vars

\* C8, amended: admission is priority-first; of two pending normal requests
\* the one inserted earlier is admitted first, and of two pending high
\* requests of different calls the one inserted later.
C8_PriorityThenFifoNormalLifoHigh ==
    [][QueueMoves =>
       /\ HighFirst'
       /\ ServedFromHead
       /\ \A a \in Pending :
            /\ \A f \in InsertedHigh :
                 pendingPriority[a] = "high" => ServedBefore(f, a)
            /\ \A f \in InsertedNormal :
                 pendingPriority[a] = "normal" => ServedBefore(a, f)]_vars

\* The limit is reached and two high requests wait.
C8_Witness ==
    /\ BagCardinality(tasks) = concurrency
    /\ Len(queueRef) >= 2
    /\ pendingPriority[queueRef[1]] = "high"
    /\ pendingPriority[queueRef[2]] = "high"

\* C9: every request that is pending or in flight is eventually resolved,
\* unless its face leaves the face list.
C9_EveryRequestServed ==
    \A f \in FaceIds :
        (f \in Pending \/ f \in InFlight) ~> (IsResolved(f) \/ f \notin faces)

(***************************************************************************)
(* Properties of getFontPreview.                                           *)
(***************************************************************************)
\* The promises of a key that have not settled.
InFlightFor(key) == {c \in computations : c.key = key}

\* The step is a getFontPreview call for the key.
CallFor(key) == returned' # returned /\ returned'.key = key

\* C4: at any moment at most one computation per key is in flight, and a
\* call for a key made while one is in flight returns that promise and
\* starts nothing.
C4_SharedInFlight ==
    [][\A k \in Keys :
          /\ Cardinality(InFlightFor(k))' <= 1
          /\ (CallFor(k) /\ InFlightFor(k) # {}) =>
                /\ \E c \in InFlightFor(k) : returned'.n = c.n
                /\ computations' = computations]_vars

\* A caller has been handed the promise of a computation still in flight.
C4_Witness ==
    /\ returned.shared
    /\ \E c \in computations : c.key = returned.key /\ c.n = returned.n

OutstandingKeys ==
    InFlight
    \cup {RepresentativeKey(c.family) : c \in selectedCalls}
    \cup {RepresentativeKey(l.pos) : l \in warmupLoops}

\* C6 as stated: counting the queue, the selected preview effect and the
\* warmup loop, at most `concurrency` generations are outstanding.
C6_SystemWideLimit == Cardinality(OutstandingKeys) <= concurrency

\* C6, amended: the queue has at most `concurrency` generations outstanding,
\* and the outstanding generations exceed that only by the calls the
\* selected preview effect and the warmup loops made outside the queue.
C6_QueueLimitOnly ==
    /\ Cardinality(InFlight) <= concurrency
    /\ Cardinality(OutstandingKeys) <=
         concurrency + Cardinality(selectedCalls) + Cardinality(warmupLoops)

\* The queue is at its limit while calls made outside it are outstanding.
C6_Witness ==
    /\ Cardinality(InFlight) = concurrency
    /\ Cardinality(OutstandingKeys) > concurrency
    /\ queueRef # <<>>

(***************************************************************************)
(* Properties of loadFontIndex.                                            *)
(***************************************************************************)
\* The files the claim says are rejected: missing, unreadable, no JSON, or a
\* version that is not FONT_INDEX_VERSION.
Rejected(file) ==
    \/ file.kind \in {"missing", "unreadable", "invalidJson"}
    \/ /\ file.kind = "object"
       /\ file.version # [type |-> "number", value |-> FONT_INDEX_VERSION]

\* C10: a load of a missing, unreadable, non-JSON or other-version file
\* resolves to null, and so returns no face of the file.
C10_RejectedLoadsNull ==
    (loadResult # NotLoaded /\ Rejected(indexFile)) => loadResult = NullIndex

\* A file of the previous version with a well-formed face was loaded as null.
C10_Witness ==
    /\ loadResult = NullIndex
    /\ indexFile.kind = "object"
    /\ indexFile.version =
         [type |-> "number", value |-> FONT_INDEX_VERSION - 1]
    /\ indexFile.faces.isArray
    /\ \E i \in 1..Len(indexFile.faces.items) :
          IsFontFace(indexFile.faces.items[i])

\* A face record with every field present and of the right type.
WellFormed(f) == f.defect = "none"

\* A file that passes the version test and the array test of the load.
Accepted(file) ==
    /\ file.kind = "object"
    /\ file.version = [type |-> "number", value |-> FONT_INDEX_VERSION]
    /\ file.faces.isArray

\* A face record of the file is malformed, or builtAt is no string.
HasMismatch(file) ==
    \/ \E i \in 1..Len(file.faces.items) : ~WellFormed(file.faces.items[i])
    \/ ~file.builtAt.isString

CompleteFiles ==
    {MissingFile, PreviousFile} \cup
    {IndexText(builds[b]) : b \in {c \in Builds : builds[c].pc \in {"write", "done"}}}

\* C12: a loadFontIndex that overlaps the persist step of a build reads what
\* was at the index path before the builds or the complete text of a build,
\* never a file that is being written.
C12_LoadSeesCompleteIndex ==
    loadResult # NotLoaded => loadedFile \in CompleteFiles

\* The computation c takes the step that writes its artifact.
WritesVector(c) ==
    c.pc = "vectorWrite" /\ c \notin computations'

WritesRaster(c) ==
    /\ c.pc = "thumbnail" /\ c \notin computations'
    /\ Moved(c, "settled", "raster") \in computations'

LooksUpVector(c) == c.pc = "vectorLookup" /\ c \notin computations'

LooksUpRaster(c) == c.pc = "rasterLookup" /\ c \notin computations'

C14_StaleResultDropped ==
    [][\A call \in selectedCalls :
        (call \notin selectedCalls' /\ selectedPreviewRunTokenRef # call.runToken)
            => UNCHANGED <<commandPreviewByFaceId, previewLoadingFaceId>>]_vars

\* The result of an earlier run was dropped while a later run waits for the
\* preview of the same face.
C14_Witness ==
    \E call \in droppedCalls :
        /\ previewLoadingFaceId = call.family
        /\ commandPreviewByFaceId[call.family] = Undefined
        /\ \E later \in selectedCalls :
              later.family = call.family /\ later.runToken > call.runToken

\* The builds that are past their scan.
Scanned == {b \in Builds : builds[b].pc # "idle"}

\* The ids of the faces of an index.
IdsOf(faceSeq) == {faceSeq[i].id : i \in 1..Len(faceSeq)}

\* The file at filePath failed: fs.stat, openSync or a font of it threw.
Failed(filePath) ==
    \/ fontFiles[filePath].kind # "fonts"
    \/ \E n \in 1..Len(fontFiles[filePath].fonts) :
          fontFiles[filePath].fonts[n].throws

\* The ids of the fonts of the file at filePath.
FontIds(filePath) ==
    {FaceIdOf(filePath, fontFiles[filePath].fonts[n].postscriptName,
              fontFiles[filePath].fonts[n].styleName) :
        n \in 1..Len(fontFiles[filePath].fonts)}

\* C15: a file that fails never aborts buildFontIndex: the build visits every
\* discovered file in order, and its index holds the faces of every file that
\* parsed without error.
C15_FailureDoesNotAbort ==
    \A b \in Scanned :
        /\ builds[b].visited = builds[b].files
        /\ \A i \in 1..Len(builds[b].files) :
              ~Failed(builds[b].files[i]) =>
                  FontIds(builds[b].files[i]) \subseteq IdsOf(builds[b].faces)

\* A build whose first file failed and whose index holds a face of a later
\* file.
C15_Witness ==
    \E b \in Scanned :
        /\ Failed(builds[b].files[1])
        /\ \E i \in 2..Len(builds[b].files) :
              /\ ~Failed(builds[b].files[i])
              /\ FontIds(builds[b].files[i]) # {}
              /\ FontIds(builds[b].files[i]) \subseteq IdsOf(builds[b].faces)

\* The files the claim counts as skipped: those that failed, an opened file
\* with no fonts included, none of whose faces entered the index.
CountedAsSkipped(b) ==
    {i \in 1..Len(builds[b].files) :
        /\ \/ Failed(builds[b].files[i])
           \/ fontFiles[builds[b].files[i]].fonts = <<>>
        /\ \A j \in 1..Len(builds[b].faces) :
              builds[b].faces[j].filePath # builds[b].files[i]}

\* C16: scannedFiles is the number of discovered files, and skippedFiles the
\* number of files that failed, where an opened file with no fonts failed and
\* a file is skipped only if none of its faces entered the index.
C16_SkippedFilesCount ==
    \A b \in Scanned :
        /\ builds[b].stats.scannedFiles = Len(builds[b].files)
        /\ builds[b].stats.skippedFiles = Cardinality(CountedAsSkipped(b))

\* The first font of the face's file that has the id of the face.
FirstWith(face) ==
    CHOOSE n \in 1..Len(fontFiles[face.filePath].fonts) :
        /\ FaceIdOf(face.filePath, fontFiles[face.filePath].fonts[n].postscriptName,
                    fontFiles[face.filePath].fonts[n].styleName) = face.id
        /\ \A m \in 1..(n - 1) :
              FaceIdOf(face.filePath,
                       fontFiles[face.filePath].fonts[m].postscriptName,
                       fontFiles[face.filePath].fonts[m].styleName) # face.id

\* C17: parsedFaces is the number of faces of the returned index, the ids of
\* the index are pairwise distinct, and the face kept for an id is the first
\* one recorded for it.
C17_FacesCountedOnce ==
    \A b \in Scanned :
        /\ builds[b].stats.parsedFaces = Len(builds[b].faces)
        /\ \A i, j \in 1..Len(builds[b].faces) :
              builds[b].faces[i].id = builds[b].faces[j].id => i = j
        /\ \A i \in 1..Len(builds[b].faces) :
              builds[b].faces[i].member = FirstWith(builds[b].faces[i])

\* A build over a container with two fonts of one id: one face is kept.
C17_Witness ==
    \E b \in Scanned : \E p \in FontPaths :
        /\ Len(fontFiles[p].fonts) = 2
        /\ ~Failed(p)
        /\ Cardinality(FontIds(p)) = 1
        /\ \E i \in 1..Len(builds[b].faces) :
              builds[b].faces[i].filePath = p /\ builds[b].faces[i].member = 1
        /\ builds[b].stats.parsedFaces = Len(builds[b].faces)

\* C19: two builds over the same file system hold the same set of ids,
\* whatever the order in which the walker returned the files.
C19_SameIdsInAnyOrder ==
    \A b, c \in Scanned : IdsOf(builds[b].faces) = IdsOf(builds[c].faces)

\* Two builds that were handed the files in different orders, one file
\* failing, with faces of more than one file.
C19_Witness ==
    \E b, c \in Scanned :
        /\ builds[b].files # builds[c].files
        /\ \E p \in FontPaths : Failed(p) /\ FontIds(p) # {}
        /\ Cardinality(IdsOf(builds[b].faces)) > 1
        /\ \E i, j \in 1..Len(builds[b].faces) :
              builds[b].faces[i].filePath # builds[b].faces[j].filePath

\* C18: the ids of two fonts are equal exactly when their file paths, their
\* PostScript names (or the lack of one) and their style names are equal,
\* over an alphabet that holds the separator.
C18_IdsCollisionFree ==
    idResult # <<>> => (idResult[1] = idResult[2] <=> idInput[1] = idInput[2])

\* C20: isIndexStale returns true exactly when builtAt is no date or the age
\* of the index is more than the time-to-live of seven days.
C20_StaleExactlyPastTtl ==
    staleResult # "none" =>
        (staleResult = "fresh" <=>
            /\ staleInput.builtAt.isDate
            /\ staleInput.now <= staleInput.builtAt.ms + 7 * 24 * 60 * 60 * 1000)

\* An index whose age is the time-to-live to the millisecond is fresh.
C20_Witness ==
    /\ staleResult = "fresh"
    /\ staleInput.builtAt.isDate
    /\ staleInput.now - staleInput.builtAt.ms = FONT_INDEX_TTL_MS

\* The index at the index path has a face, and is past its time-to-live.
HasCachedFaces == Len(indexFile.faces.items) > 0

PastTtl ==
    \/ ~staleInput.builtAt.isDate
    \/ staleInput.now - staleInput.builtAt.ms > FONT_INDEX_TTL_MS

\* C21: startup is cache-first: with a cached index that has a face, the
\* cached families are shown and isLoading is false once loadIndex has the
\* index, whatever a rebuild does, and a silent rebuild was started exactly
\* when the index is stale; without one, a foreground rebuild runs and
\* isLoading stays true until it settles.
C21_CacheFirstStartup ==
    /\ (startupPc \in {"returned", "awaitsRebuild"} /\ HasCachedFaces) =>
          /\ ~isLoading
          /\ families # "none"
          /\ (families = "cached" <=> rebuild.pc # "done")
          /\ (rebuild # NoRebuild <=> PastTtl)
          /\ (rebuild # NoRebuild => rebuild.silent)
    /\ (startupPc \in {"returned", "awaitsRebuild"} /\ ~HasCachedFaces) =>
          /\ rebuild # NoRebuild /\ ~rebuild.silent
          /\ (isLoading <=> rebuild.pc = "building")
          /\ (startupPc = "awaitsRebuild" <=> rebuild.pc = "building")

\* The cached families are on display, isLoading is false, and the silent
\* rebuild of the stale index is still at work.
C21_Witness ==
    /\ families = "cached" /\ ~isLoading
    /\ rebuild = [pc |-> "building", silent |-> TRUE]

\* The returned families, and the faces of all of them.
Grouped == groupResult.families

FacesOfAll ==
    UNION {{Grouped[k].faces[i] : i \in 1..Len(Grouped[k].faces)} :
              k \in 1..Len(Grouped)}

\* C22: groupIntoFamilies partitions its input by exact familyName: every
\* input face is in exactly one family and once in it, every face of a
\* family has the familyName of the family, no two families have the same
\* familyName, and no family is empty.
C22_PartitionByFamilyName ==
    groupResult.done =>
        /\ FacesOfAll = Range(groupInput)
        /\ \A f \in Range(groupInput) :
              Cardinality({<<k, i>> \in (1..Len(Grouped)) \X (1..MaxGroupFaces) :
                  i <= Len(Grouped[k].faces) /\ Grouped[k].faces[i] = f}) = 1
        /\ \A k \in 1..Len(Grouped) :
              /\ Grouped[k].faces # <<>>
              /\ \A i \in 1..Len(Grouped[k].faces) :
                    Grouped[k].faces[i].familyName = Grouped[k].familyName
        /\ \A k, l \in 1..Len(Grouped) :
              Grouped[k].familyName = Grouped[l].familyName => k = l

\* Faces of "arial" and of "Arial" were grouped: two families.
C22_Witness ==
    /\ groupResult.done
    /\ \E k, l \in 1..Len(Grouped) :
          Grouped[k].familyName = "arial" /\ Grouped[l].familyName = "Arial"
    /\ \E k \in 1..Len(Grouped) : Len(Grouped[k].faces) > 1

\* The style names that are "regular" once trimmed and lower-cased.
IsRegular(styleName) == styleName \in {" regular", "Regular"}

\* C23: the representative face of every returned family is a face of the
\* family: the first face in the sorted order whose style name, trimmed and
\* lower-cased, is "regular" when there is one, else the first face; and
\* representativeFaceId is the id pickRepresentativeFace gives for the faces
\* of the family.
C23_RepresentativeFace ==
    groupResult.done =>
        \A k \in 1..Len(Grouped) :
            LET fs == Grouped[k].faces
                regulars == {i \in 1..Len(fs) : IsRegular(fs[i].styleName)}
                first == IF regulars = {} THEN 1
                         ELSE CHOOSE i \in regulars : \A j \in regulars : i <= j
            IN  /\ Grouped[k].representativeFaceId = fs[first].id
                /\ Grouped[k].representativeFaceId = PickRepresentativeFace(fs).id

\* A family whose representative is a face named "Regular" that is not its
\* first face in sorted order, and a family without a regular face represented by
\* its first face in sorted order, which is not its first face in the input.
C23_Witness ==
    /\ groupResult.done
    /\ \E k \in 1..Len(Grouped) :
          \E i \in 1..Len(Grouped[k].faces) :
              /\ Grouped[k].faces[i].styleName = "Regular"
              /\ i > 1
              /\ Grouped[k].representativeFaceId = Grouped[k].faces[i].id
    /\ \E k \in 1..Len(Grouped) :
          /\ \A i \in 1..Len(Grouped[k].faces) :
                ~IsRegular(Grouped[k].faces[i].styleName)
          /\ Grouped[k].representativeFaceId = Grouped[k].faces[1].id
          /\ Grouped[k].faces[1].id > 1

\* The order of localeCompare on the names of the model.
Collation ==
    <<" regular", "arial", "Arial", "Black", "Bold", "Helvetica", "Light",
      "Regular">>

NotAfter(a, b) ==
    \E i, j \in 1..Len(Collation) :
        Collation[i] = a /\ Collation[j] = b /\ i <= j

\* C24: groupIntoFamilies returns the families sorted by familyName and the
\* faces of each family sorted by styleName, for every order of the input.
C24_SortedOutput ==
    groupResult.done =>
        /\ \A k \in 1..(Len(Grouped) - 1) :
              NotAfter(Grouped[k].familyName, Grouped[k + 1].familyName)
        /\ \A k \in 1..Len(Grouped) :
              \A i \in 1..(Len(Grouped[k].faces) - 1) :
                  NotAfter(Grouped[k].faces[i].styleName,
                           Grouped[k].faces[i + 1].styleName)

\* An input in descending order came out in ascending order.
C24_Witness ==
    /\ groupResult.done
    /\ Len(groupInput) = MaxGroupFaces
    /\ groupInput[1].familyName = "Helvetica"
    /\ groupInput[2].familyName = "Arial" /\ groupInput[2].styleName = "Regular"
    /\ groupInput[3].familyName = "Arial" /\ groupInput[3].styleName = "Bold"
    /\ Grouped[1].familyName = "Arial"
    /\ Grouped[1].faces[1].styleName = "Bold"

\* The directories that can be reached from a root through directories that
\* open, without passing a symbolic link, and the font files in them.
RECURSIVE UnderRoot(_)
UnderRoot(n) ==
    \/ n \in Range(roots)
    \/ n > 1 /\ tree[n \div 2] = "dir" /\ UnderRoot(n \div 2)

ReachableDirs == {n \in Nodes : tree[n] = "dir" /\ UnderRoot(n)}

FontFilesUnder ==
    {n \in Nodes : /\ tree[n] \in {".ttf", ".TTF"}
                   /\ n > 1 /\ (n \div 2) \in ReachableDirs}

C26_EachPathOnce ==
    walk.returned =>
        /\ Range(walk.results) = FontFilesUnder
        /\ \A i, j \in 1..Len(walk.results) :
              walk.results[i] = walk.results[j] => i = j

(***************************************************************************)
(* Properties of one preview request.                                      *)
(***************************************************************************)
\* getPreviewImage, called in this request, has settled.
RasterSettled == preview.raster # "none"

\* getPreviewImage, called in this request, is running.
InRaster ==
    preview.pc \in {"rasterMkdir", "rasterAccess", "tmpBase", "mkdtemp",
                    "thumbnail", "copy", "rm"}

\* C27: getFontPreview calls the vector generator only for a file that is a
\* collection container (.ttc, .dfont), and calls the raster generator only
\* after the vector generator gave no path; for any other file the vector
\* generator is not called.
C27_VectorOnlyForCollections ==
    /\ preview.vectorCalls > 0 => ShouldSelectByPostscript(fontFile)
    /\ InRaster =>
          \/ ~ShouldSelectByPostscript(fontFile)
          \/ preview.vector \in {"null", "rejected"}

\* C28: once getPreviewImage has settled, with a path, with null, or after
\* the thumbnail or the copy failed, the scratch directory it made does not
\* exist, if the removal itself did not fail.
C28_ScratchRemoved ==
    (RasterSettled /\ ~preview.rmFailed) =>
        preview.tmpDir \notin preview.tmpDirs

\* A request whose copy of the thumbnail failed after the scratch directory
\* was made, and whose getPreviewImage has settled.
C28_Witness ==
    /\ RasterSettled /\ ~preview.rmFailed
    /\ preview.created > 0
    /\ preview.raster = "null"
    /\ preview.tmpDir = preview.created
    /\ preview.tmpDir \notin preview.tmpDirs

\* C29: getPreviewImage never rejects: whatever fails, the thumbnailer, its
\* output, the making of the cache directory or of the scratch directory,
\* it settles with null.
C29_RasterNeverRejects == preview.raster # "rejected"

\* C30: the promise of getFontPreview settles, and with a path or with null,
\* never with a rejection, whichever step of either generator throws.
C30_PreviewNeverRejects ==
    /\ [](preview.result # "rejected")
    /\ [](preview.pc # "idle" =>
             <>(preview.pc = "idle" /\ preview.result \in {"path", "null"}))

\* A request that settled with null after its raster generator rejected,
\* and one after its vector generator rejected and the raster generator
\* gave a path.
C30_Witness ==
    /\ preview.pc = "idle" /\ preview.calls = MaxPreviewCalls
    /\ \/ preview.raster = "rejected" /\ preview.result = "null"
       \/ preview.vector = "rejected" /\ preview.result = "path"
    /\ preview.raster = "rejected" => preview.result = "null"

(***************************************************************************)
(* Properties of rebuildIndex in the command.                              *)
(***************************************************************************)
\* C31: a foreground rebuild that fails sets error to the message, puts
\* isLoading back to false and offers Retry; a retry clears error when it
\* starts, and a retry that succeeds leaves error null with the new families
\* on display.
C31_FailureAndRetry ==
    /\ (lastRebuild.did = "failed" /\ ~lastRebuild.silent) =>
          error = Message /\ ~isLoading /\ retryOffered
    /\ (lastRebuild.did = "started" /\ lastRebuild.retry) => error = NoError
    /\ (lastRebuild.did = "succeeded" /\ lastRebuild.retry) =>
          error = NoError /\ families = "built"

\* A foreground call of rebuildIndex is between its start and its finally.
ForegroundRebuilding ==
    \/ rebuild.pc = "building" /\ ~rebuild.silent
    \/ \E i \in 1..Len(userRebuilds) : userRebuilds[i].pc = "building"

\* C39: isLoading is true in every state in which a foreground rebuild is
\* in progress, also when rebuilds overlap; a silent rebuild leaves
\* isLoading and error as they are.
C39_LoadingWhileRebuilding ==
    /\ ForegroundRebuilding => isLoading
    /\ (lastRebuild.silent /\ lastRebuild.did # "started") =>
          \/ error = NoError
          \/ \E i \in 1..Len(userRebuilds) : userRebuilds[i].pc = "failed"

(***************************************************************************)
(* Properties of pickSampleText.                                           *)
(***************************************************************************)
\* Every code point of the text has a glyph with id > 0 and, when the font
\* lists its code points, is listed.
Usable(text) ==
    /\ text # <<>>
    /\ \A i \in 1..Len(text) :
          /\ text[i] \in sampleInput.font.glyphs
          /\ sampleInput.font.characterSet # {} =>
                text[i] \in sampleInput.font.characterSet

\* The candidates in the order of the claim: for a PingFang family the Han
\* text of its region and the other Han text, then the fixed list.
InOrder ==
    LET name == Trim(sampleInput.familyName)
    IN (CASE IsPingFang(name) /\ IsTraditionalRegion(name) ->
                 <<Traditional, Simplified>>
          [] IsPingFang(name) /\ ~IsTraditionalRegion(name) ->
                 <<Simplified, Traditional>>
          [] OTHER -> <<>>) \o SAMPLE_TEXT_CANDIDATES

SomeUsable == \E k \in 1..Len(InOrder) : Usable(InOrder[k])

\* C35: pickSampleText returns the first usable text of the order, whenever
\* one is usable.
C35_FirstUsableCandidate ==
    (sampleResult.done /\ SomeUsable) =>
        \E k \in 1..Len(InOrder) :
            /\ sampleResult.text = InOrder[k]
            /\ Usable(InOrder[k])
            /\ \A j \in 1..(k - 1) : ~Usable(InOrder[j])

\* A PingFang family of a traditional region whose font lists and draws
\* both Han texts: the traditional text is returned, though the simplified
\* one comes first in the fixed list.
C35_Witness ==
    /\ sampleResult.done
    /\ IsTraditionalRegion(Trim(sampleInput.familyName))
    /\ Usable(Simplified) /\ Usable(Traditional)
    /\ sampleInput.font.characterSet # {}
    /\ sampleResult.text = Traditional

\* The letters and numbers of the character set with a real glyph, in
\* ascending order.
UsableCharacters ==
    SelectSeq(Ascending(sampleInput.font.characterSet),
              LAMBDA codePoint :
                  /\ ~IsPassedOver(codePoint)
                  /\ codePoint \in sampleInput.font.glyphs)

\* C36: when no candidate is usable, the result is the first one or two
\* usable characters of the character set in ascending order, each a letter
\* or number with a real glyph, and Aa only when there is none.
C36_FallbackUsableCharacters ==
    (sampleResult.done /\ ~SomeUsable) =>
        sampleResult.text =
            IF UsableCharacters # <<>> THEN FirstTwo(UsableCharacters)
            ELSE <<65, 97>>

(***************************************************************************)
(* Properties of the raster cache path.                                    *)
(***************************************************************************)
\* C34: two raster requests that differ only in fileMtimeMs have different
\* cache keys, so the second does not find the artifact of the first and a
\* generation is attempted; requests equal in file path, mtime and size have
\* the same key.
C34_MtimeChangesKey ==
    keyResult # <<>> =>
        /\ (/\ keyInput[1].filePath = keyInput[2].filePath
            /\ keyInput[1].size = keyInput[2].size
            /\ keyInput[1].fileMtimeMs # keyInput[2].fileMtimeMs) =>
              /\ keyResult.first.key # keyResult.second.key
              /\ ~keyResult.hit
        /\ keyInput[1] = keyInput[2] =>
              /\ keyResult.first.key = keyResult.second.key
              /\ keyResult.hit

\* Two requests for a file whose path holds a colon and digits, with
\* modification times 1 and 11, and the second one misses.
C34_Witness ==
    /\ keyResult # <<>>
    /\ keyInput[1].filePath = <<":", "1">>
    /\ keyInput[2].filePath = <<":", "1">>
    /\ keyInput[1].size = 1 /\ keyInput[2].size = 1
    /\ keyInput[1].fileMtimeMs = 1 /\ keyInput[2].fileMtimeMs = 11
    /\ ~keyResult.hit

(***************************************************************************)
(* Properties of buildVectorPreviewSvg.                                    *)
(***************************************************************************)
BothBuilt == svgResult # <<>> /\ svgResult[1].done /\ svgResult[2].done

IsCollectionName(ext) == ext \in {".ttc", ".TTC", ".dfont"}

ResolvedToPath(key) == settledResult[key] \in {"vector", "raster"}

\* C32: after getFontPreview has resolved to an artifact path, a later call
\* with the same parameters runs no generator and resolves to the same
\* path.
C32_SecondCallFromCache ==
    [][\A c \in computations :
        (ResolvedToPath(c.key) /\ c \notin computations') =>
            /\ generations'[c.key] = generations[c.key]
            /\ c.pc = "settled" => c.value = settledResult[c.key]]_vars

(***************************************************************************)
(* Properties of the counter of the preview queue.                         *)
(***************************************************************************)
\* C37: in every state of the preview queue, also after the face list
\* changed and the sets were pruned, activeCountRef is the size of the
\* running set, is not negative, and is the number of generations the queue
\* started that have not settled.
C37_ActiveCountIsRunning ==
    /\ activeCountRef = Cardinality(runningSetRef)
    /\ activeCountRef >= 0
    /\ activeCountRef = BagCardinality(tasks)

WarmupSpec == Init /\ [][WarmupNext]_vars

\* The scores of the entries a run has called for never go down.
InScoreOrder(calls) ==
    \A i, j \in 1..Len(calls) : i < j => calls[i].score <= calls[j].score

\* C40: a warmup run whose cleanup has run (new search text, visible
\* families or face map, or unmount) starts no getFontPreview call from then
\* on; a run awaits at most one call at a time; and the calls of a run are
\* made in ascending order of search score.
C40_SupersededRunStops ==
    [][/\ \A t \in superseded : warmupCalls'[t] = warmupCalls[t]
       /\ \A t \in WarmupTokens :
             /\ Cardinality({l \in warmupLoops' : l.runToken = t}) <= 1
             /\ InScoreOrder(warmupCalls'[t])]_vars

\* A superseded run has stopped before the end of its list, its last call
\* settled, and a later run has called for entries of different scores.
C40_Witness ==
    \E t \in superseded, u \in WarmupTokens :
        /\ Len(warmupCalls[t]) >= 1
        /\ Len(warmupCalls[t]) < Len(warmupEntries[t])
        /\ \A l \in warmupLoops : l.runToken # t
        /\ u > t
        /\ Len(warmupCalls[u]) >= 2
        /\ warmupCalls[u][1].score < warmupCalls[u][2].score
        /\ warmupCalls[u][1].faceId > warmupCalls[u][2].faceId
====
